---- MODULE Spec2Model ----
(***************************************************************************)
(* with-domain-driven-caching: the cache-coherence engine.                 *)
(*                                                                         *)
(* The model follows the source call by call.  Every await on the store    *)
(* (cache.get / cache.set) and on the wrapped logic is one step, so that   *)
(* the calls of one process interleave exactly where the event loop lets   *)
(* them interleave.  Synchronous code between two awaits belongs to the    *)
(* step of the await that precedes it.                                     *)
(*                                                                         *)
(* Fixture (the caller's domain, as in withQueryCaching.integration.test): *)
(*   entity class Container {uuid, onShipUuid}, updatable = onShipUuid;    *)
(*   entity class Ship {uuid, name, fuelQuantity},                         *)
(*                                     updatable = name, fuelQuantity;     *)
(*   query  getContainersOnShip({shipUuid})  -> {containers: Container[]}  *)
(*   query  getContainerOnShip({shipUuid})   -> Container | null           *)
(*   both depend on relationship from=Ship.uuid to=Container               *)
(*                                 via=Container.onShipUuid;               *)
(*   query  getShipOfContainer({containerUuid}) -> {ship: Ship | null}     *)
(*   depends on relationship from=Container.uuid to=Ship                   *)
(*                                 via=Container.onShipUuid;               *)
(*   query  findShip({shipUuid}) -> {ship: Ship | null}                    *)
(*   depends on identity Ship.uuid; findShipIfAny is findShip with         *)
(*   valid = a ship was found and dependsOn a function of the output;      *)
(*   query  getContainersOfOwner({shipUuid}) -> {containers: Container[]}  *)
(*   depends on the relationship of getContainersOnShip and on one         *)
(*   declared via=Container.ownerUuid, a name that does not reference Ship;*)
(*   mutation addContainerToShip({containerUuid, shipUuid}) -> Container;  *)
(*   mutation updateFuelOfShip({shipUuid, newFuelQuantity}) -> Ship.       *)
(* The impact scanner's own tests use a richer Container {uuid, icid,      *)
(* onShipUuid, insuredCargoUuids: string[], lock}, unique = icid,          *)
(* updatable = onShipUuid, insuredCargoUuids, lock.  The model names that  *)
(* class CargoContainer to keep its keys apart from the Container above;   *)
(*   mutation upsertContainer({container}) -> {container} outputs one.     *)
(* The classes declare a unique key other than uuid (as the Container of   *)
(* the impact scanner's test does), so uuid is one of their metadata keys. *)
(***************************************************************************)
EXTENDS Integers, Sequences, FiniteSets, TLC

\* ------------------------------------------------------------------ bounds
\* number of wrapped calls (query, mutation, register, invalidate) one run makes
MaxCalls == 3
\* number of wrapped query and mutation calls in flight at once
MaxInFlight == 2

Calls == 1..MaxCalls

\* ----------------------------------------------------------- the fixture
Ships == {"s1", "s2"}
Containers == {"c1"}
QueryFns == {"getContainersOnShip", "getContainerOnShip"}

\* the fuel quantities a Ship may have; "0" stands for the number 0
FuelQuantities == {"0", "9"}
\* the marker of a row that does not exist, and of a property a class lacks
None == "none"

\* a Container instance
Entity(c, s) ==
  [class |-> "Container", uuid |-> c, onShipUuid |-> s, name |-> None, fuelQuantity |-> None]
\* a Ship instance
ShipEntity(s, fuel) ==
  [class |-> "Ship", uuid |-> s, onShipUuid |-> None, name |-> "__name__",
   fuelQuantity |-> fuel]
\* JavaScript null, as a property value
Null == "null"
\* the ContainerLock value object of the scanner's tests
Lock == "lock1"
\* the values of insuredCargoUuids the fixture uses
CargoLists == {<<"g1">>, <<"g1", "g2">>}
\* a CargoContainer instance; uuid = None is an instance without the uuid key
CargoContainer(uuid, s, cargo, lock) ==
  [class |-> "CargoContainer", uuid |-> uuid, icid |-> "i1", onShipUuid |-> s,
   insuredCargoUuids |-> cargo, lock |-> lock]
CargoContainers ==
  {CargoContainer(u, s, g, l) :
     u \in {"c1", None}, s \in Ships, g \in CargoLists, l \in {Null, Lock}}
Entities ==
  {Entity(c, s) : c \in Containers, s \in Ships}
  \cup {ShipEntity(s, fuel) : s \in Ships, fuel \in FuelQuantities}
  \cup CargoContainers
NoDobj ==
  [class |-> None, uuid |-> None, onShipUuid |-> None, name |-> None, fuelQuantity |-> None]

\* static updatable of the class
UpdatableProps(class) ==
  CASE class = "Container" -> <<"onShipUuid">>
    [] class = "CargoContainer" -> <<"onShipUuid", "insuredCargoUuids", "lock">>
    [] OTHER -> <<"name", "fuelQuantity">>
\* omitMetadataValues(dobj): the keys left once id, uuid, createdAt, updatedAt,
\* effectiveAt are dropped
NonMetadataProps(class) ==
  CASE class = "Container" -> <<"onShipUuid">>
    [] class = "CargoContainer" -> <<"icid", "onShipUuid", "insuredCargoUuids", "lock">>
    [] OTHER -> <<"name", "fuelQuantity">>

PropValue(e, prop) ==
  CASE prop = "uuid" -> e.uuid
    [] prop = "onShipUuid" -> e.onShipUuid
    [] prop = "name" -> e.name
    [] prop = "icid" -> e.icid
    [] prop = "insuredCargoUuids" -> e.insuredCargoUuids
    [] prop = "lock" -> e.lock
    [] OTHER -> e.fuelQuantity

\* 'uuid' in dobj
HasUuid(e) == e.uuid # None

\* Array.isArray of the value of a property: insuredCargoUuids is the one
\* property the classes declare as an array
IsArray(prop) == prop = "insuredCargoUuids"

\* JavaScript truthiness of a property value that is not an array: the number 0
\* and null are falsy
ValueTruthy(value) == value \notin {"0", Null}

\* ------------------------------------------------------------ store values
\* what a key of the store holds; undefined is AbsentValue
AbsentValue ==
  [kind |-> "absent", queries |-> <<>>, falsy |-> TRUE, refs |-> {}, dobj |-> NoDobj]
PointerState(qs) ==
  [kind |-> "pointer", queries |-> qs, falsy |-> FALSE, refs |-> {}, dobj |-> NoDobj]
QueryEntry(falsy, refs) ==
  [kind |-> "entry", queries |-> <<>>, falsy |-> falsy, refs |-> refs, dobj |-> NoDobj]
Snapshot(e) ==
  [kind |-> "snapshot", queries |-> <<>>, falsy |-> FALSE, refs |-> {}, dobj |-> e]
\* a value that is no record of a pointer: an object without a list of queries
\* (truthy), or one of null, 0, false, "" (falsy)
CorruptValue(falsy) ==
  [kind |-> "corrupt", queries |-> <<>>, falsy |-> falsy, refs |-> {}, dobj |-> NoDobj]

\* JavaScript truthiness of a value read from the cache
Truthy(v) == v.kind # "absent" /\ ~v.falsy

\* a query or mutation output: null (falsy) or an object holding entities
NullOutput == [falsy |-> TRUE, ents |-> {}]
ObjectOutput(ents) == [falsy |-> FALSE, ents |-> ents]
\* the value a call returns: undefined, or an output
UndefinedResult == [defined |-> FALSE, falsy |-> TRUE, ents |-> {}]
DefinedResult(o) == [defined |-> TRUE, falsy |-> o.falsy, ents |-> o.ents]

\* ------------------------------------------------------------------- keys
\* keys are strings; a key is modelled as the tuple of its segments

\* sha256 hex digest of JSON.stringify(value)
Sha256(value) ==
  CASE value = "s1" -> "sha256.s1"
    [] value = "s2" -> "sha256.s2"
    [] value = "c1" -> "sha256.c1"
    [] value = "0" -> "sha256.0"
    [] value = "9" -> "sha256.9"
    [] value = "g1" -> "sha256.g1"
    [] value = "g2" -> "sha256.g2"
    [] value = "i1" -> "sha256.i1"
    [] value = Null -> "sha256.null"
    [] value = Lock -> "sha256.lock1"
    [] OTHER -> "sha256.__name__"
\* JSON.stringify(value) with ':' -> '.', non-word characters dropped
HumanPart(value) == value

\* a value object serializes to getUniqueIdentifierSlug(value): its class name,
\* its properties and their digest
serializePropertyValue(value) ==
  IF value = Lock
    THEN <<"ContainerLock", Sha256(value)>>
    ELSE <<HumanPart(value), Sha256(value)>>

PropertyOf(uuid) == [type |-> "propertyOf", arg |-> uuid]
PropertyEquals(value) == [type |-> "propertyEquals", arg |-> value]

defineDependencyPointerKey(dobj, property, specifier) ==
  IF specifier.type = "propertyOf"
    THEN <<".query.dep", dobj, "uuid", specifier.arg, property>>
    ELSE <<".query.dep", dobj, property>> \o serializePropertyValue(specifier.arg)

\* options.serialize.key(...input): function name and event, as the tests do
QueryKey(fn, ship) == <<"query", fn, ship>>

\* the input of getContainerAndShip: an object of two properties, held as the
\* sequence of its <<name, value>> pairs in the order the caller wrote them
PairInputs ==
  UNION {{<<<<"containerUuid", c>>, <<"shipUuid", s>>>>,
          <<<<"shipUuid", s>>, <<"containerUuid", c>>>>} : c \in Containers, s \in Ships}
\* input[0][name]
PropertyOfInput(input, name) == input[CHOOSE n \in DOMAIN input : input[n][1] = name][2]

RECURSIVE JSONStringifyProperties(_)
\* the properties of an object, serialized in their own order
JSONStringifyProperties(properties) ==
  IF properties = <<>> THEN <<>>
  ELSE <<Head(properties)[1], Head(properties)[2]>>
       \o JSONStringifyProperties(Tail(properties))
\* JSON.stringify(input) of the arguments [object]
JSONStringify(input) == <<"[{">> \o JSONStringifyProperties(input) \o <<"}]">>

\* whether the query was wrapped with options.serialize.key
SerializeKeyGiven(fn) == fn # "getContainerAndShip"

\* options.serialize?.key(...input) ?? JSON.stringify(input)
CacheKey(fn, input) ==
  IF SerializeKeyGiven(fn) THEN QueryKey(fn, input) ELSE JSONStringify(input)

\* getCacheReferenceKeyForDomainObject(dobj)
RefKey(e) ==
  <<".cache.ref", e.class, IF e.class = "CargoContainer" THEN e.icid ELSE e.uuid>>

QueryKeys == {QueryKey(fn, s) : fn \in QueryFns, s \in Ships}
PointerKeys ==
  {defineDependencyPointerKey("Container", "onShipUuid", PropertyOf(c)) : c \in Containers}
  \cup {defineDependencyPointerKey("Container", "onShipUuid", PropertyEquals(s)) : s \in Ships}
RefKeys == {RefKey(e) : e \in Entities}

\* every wrapped query of the fixture with each of its inputs
QueryCalls ==
  {<<fn, s>> : fn \in QueryFns \cup {"findShip", "findShipIfAny"}, s \in Ships}
  \cup {<<"getShipOfContainer", c>> : c \in Containers}
AllQueryKeys == {QueryKey(q[1], q[2]) : q \in QueryCalls}
AllPointerKeys ==
  PointerKeys
  \cup {defineDependencyPointerKey("Ship", p, PropertyOf(s)) :
          p \in {"name", "fuelQuantity"}, s \in Ships}
  \cup {defineDependencyPointerKey("Ship", "fuelQuantity", PropertyEquals(f)) :
          f \in FuelQuantities}
  \cup {defineDependencyPointerKey("Ship", "name", PropertyEquals("__name__"))}
  \cup {defineDependencyPointerKey("Ship", "uuid", PropertyEquals(s)) : s \in Ships}
\* the pointers of the CargoContainer c1 and of the values of its properties
CargoPointerKeys ==
  {defineDependencyPointerKey("CargoContainer", p, PropertyOf("c1")) :
     p \in {"icid", "onShipUuid", "insuredCargoUuids", "lock"}}
  \cup {defineDependencyPointerKey("CargoContainer", "icid", PropertyEquals("i1"))}
  \cup {defineDependencyPointerKey("CargoContainer", "uuid", PropertyEquals("c1"))}
  \cup {defineDependencyPointerKey("CargoContainer", "onShipUuid", PropertyEquals(s)) :
          s \in Ships}
  \cup {defineDependencyPointerKey("CargoContainer", "insuredCargoUuids", PropertyEquals(g)) :
          g \in {"g1", "g2"}}
  \cup {defineDependencyPointerKey("CargoContainer", "lock", PropertyEquals(l)) :
          l \in {Null, Lock}}
\* the key of the query of the cargo containers on a ship
CargoQueryKeys == {QueryKey("getCargoContainersOnShip", s) : s \in Ships}
\* the keys of the query whose dependsOn names a relationship via ownerUuid
OwnerQueryKeys == {QueryKey("getContainersOfOwner", s) : s \in Ships}
\* the keys of the query wrapped without a key serializer
DefaultQueryKeys == {CacheKey("getContainerAndShip", input) : input \in PairInputs}
\* the keys of the query whose extractor returns an array of ids
ShipAndContainersQueryKeys == {QueryKey("getShipAndItsContainers", s) : s \in Ships}
Keys ==
  AllQueryKeys \cup AllPointerKeys \cup RefKeys \cup CargoPointerKeys \cup CargoQueryKeys
  \cup OwnerQueryKeys \cup DefaultQueryKeys \cup ShipAndContainersQueryKeys

NoKey == <<>>

SeqToSet(s) == {s[n] : n \in DOMAIN s}
Includes(s, x) == x \in SeqToSet(s)

\* ------------------------------------------------- sequences, as the code uses them
RECURSIVE Flat(_)
\* Array.prototype.flat on a sequence of sequences
Flat(ss) == IF ss = <<>> THEN <<>> ELSE Head(ss) \o Flat(Tail(ss))

RECURSIVE Dedupe(_)
\* [...new Set(seq)]: first occurrences, in order
Dedupe(s) ==
  IF s = <<>> THEN <<>>
  ELSE LET init == Dedupe(SubSeq(s, 1, Len(s) - 1))
           last == s[Len(s)]
       IN IF Includes(init, last) THEN init ELSE Append(init, last)

RECURSIVE SetToSeq(_)
\* Object.entries(references): some order of the entries
SetToSeq(S) ==
  IF S = {} THEN <<>> ELSE LET x == CHOOSE y \in S : TRUE IN <<x>> \o SetToSeq(S \ {x})

\* --------------------------------------------------------- wrapped logic
\* the database the wrapped logic reads and writes: container -> ship it is on
ContainersOn(database, ship) ==
  {Entity(c, database[c]) : c \in {x \in Containers : database[x] = ship}}

\* the Ship row of the database, if the ship exists
ShipsWith(database, ship) ==
  IF ship \in DOMAIN database /\ database[ship] # None
    THEN {ShipEntity(ship, database[ship])}
    ELSE {}

\* the wrapped query logic, by function; ship is the uuid its input names
QueryLogic(fn, database, ship) ==
  CASE fn = "getContainersOnShip" -> ObjectOutput(ContainersOn(database, ship))
    [] fn = "getContainerOnShip" ->
         IF ContainersOn(database, ship) = {}
           THEN NullOutput
           ELSE ObjectOutput({CHOOSE e \in ContainersOn(database, ship) : TRUE})
    [] fn = "getShipOfContainer" -> ObjectOutput(ShipsWith(database, database[ship]))
    [] fn = "getContainersOfOwner" -> ObjectOutput(ContainersOn(database, ship))
    [] fn = "getShipAndItsContainers" -> ObjectOutput(ContainersOn(database, ship))
    [] fn = "getContainerAndShip" ->
         ObjectOutput({CargoContainer("c1", ship, <<"g1", "g2">>, Lock),
                       ShipEntity(ship, None)})
    [] OTHER -> ObjectOutput(ShipsWith(database, ship))

\* the wrapped mutation logic addContainerToShip: its output
MutationLogic(c, ship) == ObjectOutput({Entity(c, ship)})
\* the wrapped mutation logic updateFuelOfShip: its output
UpdateFuelLogic(ship, fuel) == ObjectOutput({ShipEntity(ship, fuel)})

\* the wrapped mutation logic upsertContainer: it outputs the container it was given
UpsertContainerLogic(e) == ObjectOutput({e})

\* ------------------------------------------- normalization (collaborator)
\* normalizeDomainObjectReferences({value}).references: reference key -> dobj
References(output) == {<<RefKey(e), e>> : e \in output.ents}
\* the normalized shape of a value: entity occurrences replaced by pointers
Normalized(output) == QueryEntry(output.falsy, {RefKey(e) : e \in output.ents})
\* a faulty variant, for comparison: the pointers are not substituted back
DenormalizedWithoutDobjs(entry, snapshots) == [falsy |-> entry.falsy, ents |-> {}]

\* denormalization of a cached entry against the snapshots read for its pointers
Denormalized(entry, snapshots) ==
  [falsy |-> entry.falsy, ents |-> {snapshots[r].dobj : r \in entry.refs}]

\* ----------------------------------------------------- dependency resolver
Relationship(fromDobj, extractor, toDobj, viaDobj, viaProp) ==
  [type |-> "relationship", dobj |-> fromDobj, uuid |-> extractor,
   toDobj |-> toDobj, viaDobj |-> viaDobj, viaProp |-> viaProp]
Identity(dobj, extractor) ==
  [type |-> "identity", dobj |-> dobj, uuid |-> extractor,
   toDobj |-> "none", viaDobj |-> "none", viaProp |-> "none"]

\* options.dependsOn of the queries of the fixture
DependsOn(fn) ==
  CASE fn \in QueryFns ->
         <<Relationship("Ship", "input.shipUuid", "Container", "Container", "onShipUuid")>>
    [] fn = "getShipOfContainer" ->
         <<Relationship("Container", "input.containerUuid", "Ship", "Container", "onShipUuid")>>
    [] fn = "getContainersOfOwner" ->
         <<Relationship("Ship", "input.shipUuid", "Container", "Container", "onShipUuid"),
           Relationship("Ship", "input.shipUuid", "Container", "Container", "ownerUuid")>>
    [] fn = "getContainerAndShip" ->
         <<Identity("CargoContainer", "inputOfTwo.containerUuid"),
           Relationship("Ship", "inputOfTwo.shipUuid", "CargoContainer",
                        "CargoContainer", "onShipUuid"),
           Relationship("CargoContainer", "inputOfTwo.containerUuid", "InsuredCargo",
                        "CargoContainer", "insuredCargoUuids")>>
    [] fn = "getShipAndItsContainers" ->
         <<Relationship("Ship", "execution.shipUuids", "Container",
                        "Container", "onShipUuid")>>
    [] OTHER -> <<Identity("Ship", "input.shipUuid")>>

\* isAFunction(options.dependsOn): findShipIfAny is wrapped with a function,
\* ({output}) => [{identity: {dobj: ref(Ship), uuid: the uuids of the output}}]
isAFunction(fn) == fn = "findShipIfAny"

\* isAFunction(dependsOn) ? dependsOn(execution) : dependsOn
DependsOnEvaluated(fn, ship, output) ==
  IF isAFunction(fn) THEN <<Identity("Ship", "output.uuids")>> ELSE DependsOn(fn)

\* the uuid extractor of a declaration, applied to {input, output}; ship is the
\* uuid the input names
ExtractUuids(extractor, ship, output) ==
  IF extractor \in {"input.shipUuid", "input.containerUuid"} THEN <<ship>>
  ELSE IF extractor = "inputOfTwo.containerUuid"
    THEN <<PropertyOfInput(ship, "containerUuid")>>
  ELSE IF extractor = "inputOfTwo.shipUuid" THEN <<PropertyOfInput(ship, "shipUuid")>>
  ELSE IF extractor = "execution.shipUuids"
    \* an extractor that returns an array: the ship asked for, then the ship of
    \* each container of the output
    THEN LET containers == SetToSeq(output.ents)
         IN <<ship>> \o [n \in DOMAIN containers |-> containers[n].onShipUuid]
  ELSE [n \in 1..Cardinality(output.ents) |-> SetToSeq({e.uuid : e \in output.ents})[n]]

\* isPropertyNameAReferenceIntuitively (domain-objects)
isPropertyNameAReferenceIntuitively(propertyName, domainObjectName) ==
  <<propertyName, domainObjectName>>
    \in {<<"onShipUuid", "Ship">>, <<"insuredCargoUuids", "InsuredCargo">>}

\* a faulty variant, for comparison: an identity dependency registers against the
\* fuel quantity of the instance
PointersOfDependencyOnProperty(dependency, ship, output) ==
  LET uuids == ExtractUuids(dependency.uuid, ship, output) IN
  IF dependency.type = "identity"
    THEN [n \in DOMAIN uuids |->
           defineDependencyPointerKey(dependency.dobj, "fuelQuantity", PropertyOf(uuids[n]))]
    ELSE LET viaSourceDobj == dependency.viaDobj = dependency.dobj IN
         [n \in DOMAIN uuids |->
           defineDependencyPointerKey(
             dependency.viaDobj, dependency.viaProp,
             IF viaSourceDobj THEN PropertyOf(uuids[n]) ELSE PropertyEquals(uuids[n]))]

\* a faulty variant, for comparison: the resolver writes the value into the key
\* itself, without the serialization the scanner applies
PointersOfDependencyUnserialized(dependency, ship, output) ==
  LET uuids == ExtractUuids(dependency.uuid, ship, output) IN
  IF dependency.type = "identity"
    THEN [n \in DOMAIN uuids |-> <<".query.dep", dependency.dobj, "uuid", uuids[n]>>]
    ELSE LET viaSourceDobj == dependency.viaDobj = dependency.dobj IN
         [n \in DOMAIN uuids |->
           IF viaSourceDobj
             THEN <<".query.dep", dependency.viaDobj, dependency.viaProp, "uuid", uuids[n]>>
             ELSE <<".query.dep", dependency.viaDobj, dependency.viaProp, uuids[n]>>]

\* the pointers of one declaration
PointersOfDependency(dependency, ship, output) ==
  LET uuids == ExtractUuids(dependency.uuid, ship, output) IN
  IF dependency.type = "identity"
    THEN [n \in DOMAIN uuids |->
           defineDependencyPointerKey(dependency.dobj, "uuid", PropertyEquals(uuids[n]))]
    ELSE LET viaSourceDobj == dependency.viaDobj = dependency.dobj IN
         [n \in DOMAIN uuids |->
           defineDependencyPointerKey(
             dependency.viaDobj, dependency.viaProp,
             IF viaSourceDobj THEN PropertyOf(uuids[n]) ELSE PropertyEquals(uuids[n]))]

\* a faulty variant, for comparison: the naming check is skipped
DependencyThrowsNever(dependency) == FALSE

\* whether the naming check of a declaration throws
DependencyThrows(dependency) ==
  /\ dependency.type = "relationship"
  /\ ~isPropertyNameAReferenceIntuitively(
        dependency.viaProp,
        IF dependency.viaDobj = dependency.dobj THEN dependency.toDobj ELSE dependency.dobj)

\* a faulty variant, for comparison: the pointers are deduplicated
getDependencyPointersDependedOnByQueryDeduped(dependsOn, ship, output) ==
  Dedupe(Flat([n \in DOMAIN dependsOn |-> PointersOfDependency(dependsOn[n], ship, output)]))

getDependencyPointersDependedOnByQuery(dependsOn, ship, output) ==
  Flat([n \in DOMAIN dependsOn |-> PointersOfDependency(dependsOn[n], ship, output)])

\* -------------------------------------------------- mutation impact scanner
\* a faulty variant, for comparison: an uncached dobj emits its updatable properties only
PropertiesImpactedUpdatable(dobjCached, dobjReferenced) ==
  IF ~Truthy(dobjCached)
    THEN UpdatableProps(dobjReferenced.class)
    ELSE SelectSeq(UpdatableProps(dobjReferenced.class),
           LAMBDA key : PropValue(dobjCached.dobj, key) # PropValue(dobjReferenced, key))

\* a faulty variant, for comparison: the cached state is not compared
PropertiesImpactedUncompared(dobjCached, dobjReferenced) ==
  NonMetadataProps(dobjReferenced.class)

\* the properties of the referenced dobj that are impacted, given the cached state
PropertiesImpacted(dobjCached, dobjReferenced) ==
  IF ~Truthy(dobjCached)
    THEN NonMetadataProps(dobjReferenced.class)
    ELSE SelectSeq(UpdatableProps(dobjReferenced.class),
           LAMBDA key : PropValue(dobjCached.dobj, key) # PropValue(dobjReferenced, key))

\* a faulty variant, for comparison: no pointer to the values of the property
PointersOfPropertyIdentityOnly(dobjCached, dobjReferenced, propertyKey) ==
  <<defineDependencyPointerKey(
      dobjReferenced.class, propertyKey, PropertyOf(dobjReferenced.uuid))>>

\* a faulty variant, for comparison: no pointer to the property of the instance
PointersOfPropertyValuesOnly(dobjCached, dobjReferenced, propertyKey) ==
  <<defineDependencyPointerKey(
      dobjReferenced.class, propertyKey,
      PropertyEquals(PropValue(dobjReferenced, propertyKey)))>>

\* the pointers of one impacted property: the identity one, then old and new values
PointersOfProperty(dobjCached, dobjReferenced, propertyKey) ==
  LET propertyValueOldArray ==
        IF ~Truthy(dobjCached) THEN <<>>
        ELSE IF IsArray(propertyKey) THEN PropValue(dobjCached.dobj, propertyKey)
        ELSE IF ValueTruthy(PropValue(dobjCached.dobj, propertyKey))
          THEN <<PropValue(dobjCached.dobj, propertyKey)>>
          ELSE <<>>
      propertyValueNewArray ==
        IF IsArray(propertyKey)
          THEN PropValue(dobjReferenced, propertyKey)
          ELSE <<PropValue(dobjReferenced, propertyKey)>>
      merged == propertyValueOldArray \o propertyValueNewArray
  IN <<defineDependencyPointerKey(
         dobjReferenced.class, propertyKey, PropertyOf(dobjReferenced.uuid))>>
     \o [n \in DOMAIN merged |->
          defineDependencyPointerKey(
            dobjReferenced.class, propertyKey, PropertyEquals(merged[n]))]

getDependencyPointersInvalidatedByMutationOutputReference(dobjCached, dobjReferenced) ==
  LET impacted == PropertiesImpacted(dobjCached, dobjReferenced) IN
  Dedupe(Flat([n \in DOMAIN impacted |->
                 PointersOfProperty(dobjCached, dobjReferenced, impacted[n])]))

\* the scan of one reference throws: the entity has an impacted property and
\* no uuid to name it by
ReferenceThrows(dobjCached, dobjReferenced) ==
  /\ PropertiesImpacted(dobjCached, dobjReferenced) # <<>>
  /\ ~HasUuid(dobjReferenced)

\* the scan over every reference of the output; cached: reference key -> value read
getDependencyPointersInvalidatedByMutation(cached, output) ==
  LET references == SetToSeq(References(output)) IN
  Dedupe(Flat([n \in DOMAIN references |->
    getDependencyPointersInvalidatedByMutationOutputReference(
      cached[references[n][1]], references[n][2])]))

\* --------------------------------------------------------- pointer registry
isValidPointerState(state) == state.kind = "pointer"

\* ---------------------------------------------------------------- retention
\* secondsUntilExpiration: Infinity
Infinity == 0 - 1
\* no secondsUntilExpiration given to cache.set: the default of the cache applies
NoExpiration == 0 - 2
DEFAULT_REFERENCE_SECONDS_UNTIL_EXPIRATION == 30 * 24 * 60 * 60

\* options.secondsUntilExpiration of the wrapped queries: getShipOfContainer asks
\* for one second, the others leave it undefined
SecondsUntilExpiration(fn) == IF fn = "getShipOfContainer" THEN 1 ELSE NoExpiration

\* a faulty variant, for comparison: the snapshots of a query's output expire with the query
ReferenceRetentionOfQuery(fn) == SecondsUntilExpiration(fn)

\* referenceSecondsUntilExpiration of the normalizing cache of a wrapped query
ReferenceRetention(fn) == DEFAULT_REFERENCE_SECONDS_UNTIL_EXPIRATION

\* ------------------------------------------------------------------ state
VARIABLES
  db,          \* the database behind the wrapped logic: container -> ship
  store,       \* the key/value store (options.cache): key -> value
  call,        \* the wrapped calls of this process: id -> its position and locals
  regQueued,   \* register jobs scheduled on a bottleneck, not yet started
  regRunning,  \* register jobs inside their bottleneck, with the state they read
  invQueued,   \* invalidations whose cache.get(pointer) is in flight
  clears       \* cache.set(queryKey, undefined) writes in flight

vars == <<db, store, call, regQueued, regRunning, invQueued, clears>>

NoCall ==
  [kind |-> "none", pc |-> "idle", fn |-> "none", ship |-> "none", container |-> "none",
   key |-> NoKey, ranLogic |-> FALSE, hit |-> FALSE, output |-> NullOutput,
   pointers |-> <<>>, refsPending |-> {}, found |-> AbsentValue,
   result |-> UndefinedResult, invalidated |-> <<>>, writes |-> {},
   ver |-> 0, prior |-> "none", noDependents |-> {}, dobjCached |-> AbsentValue,
   error |-> "none", thrown |-> "none", sets |-> {}, input |-> <<>>,
   logDebug |-> FALSE, logs |-> <<>>, traced |-> FALSE, ops |-> {},
   rewound |-> FALSE, storeStart |-> <<>>, dbStart |-> <<>>, storeEnd |-> <<>>,
   evaluations |-> <<>>]

\* bookkeeping for the properties, never read by the calls themselves:
\*   writes        the keys the call has written to the store
\*   ver           the database version the call's logic saw (query) or made (mutation)
\*   prior         the ship the container was on before the mutation's logic
\*   noDependents  the pointers whose invalidation found no record
\*   dobjCached    the prior snapshot the mutation's scan read for its output's dobj
\*   thrown        the error the wrapped logic threw
\*   sets          the cache.set calls of the call: <<key, secondsUntilExpiration>>
\*   input         the input object of a call of getContainerAndShip
\*   logDebug      whether the wrapper of the call was given options.logDebug
\*   logs          the messages the call has handed to options.logDebug
\*   traced, ops   whether the call's cache operations are recorded, and the record
\*   rewound       the store and the database were put back for this call
\*   evaluations   the outputs a function-valued dependsOn was evaluated with
\*   storeStart    the store the compared calls start from
\*   dbStart       the database the compared calls start from
\*   storeEnd      the store the first of the compared calls left
\* error is the error the call rejected with, when its pc is "failed"

\* if (options.logDebug) options.logDebug(message, ...): the callback is handed
\* the message and returns
Log(c, message) == IF c.logDebug THEN [c EXCEPT !.logs = Append(@, message)] ELSE c
LogOf(cs, i, message) == [cs EXCEPT ![i] = Log(cs[i], message)]

\* the cache.get and cache.set calls of a traced call, each with the key, its
\* position among the call's operations on that key, and the value read or written
Trace(c, kind, keys, st) ==
  IF c.traced
    THEN [c EXCEPT !.ops = @ \cup
           {<<k, 1 + Cardinality({o \in c.ops : o[1] = k}), kind, st[k]>> : k \in keys}]
    ELSE c
TraceOf(cs, i, kind, keys, st) == [cs EXCEPT ![i] = Trace(cs[i], kind, keys, st)]

\* the database version: one per mutation whose logic has run
Version == Cardinality({i \in Calls : call[i].kind = "mutation"})

Init ==
  /\ db \in [Containers -> Ships]
  /\ store = [k \in Keys |-> AbsentValue]
  /\ call = [i \in Calls |-> NoCall]
  /\ regQueued = {}
  /\ regRunning = {}
  /\ invQueued = {}
  /\ clears = {}

\* calls start in the order of their ids
MayStart(i) ==
  /\ call[i].kind = "none"
  /\ \A j \in Calls : j < i => call[j].kind # "none"

\* the calls that have started and not yet returned or thrown
InFlight == {i \in Calls : call[i].kind # "none" /\ call[i].pc \notin {"done", "failed"}}

\* a wrapped query or mutation call may start
MayStartWrapped(i) == MayStart(i) /\ Cardinality(InFlight) < MaxInFlight

\* ------------------------------------------- register (addQueryKeyToDependencyPointer)
RegisterJob(i, n, pointer, queryKey) ==
  [owner |-> i, idx |-> n, pointer |-> pointer, queryKey |-> queryKey]

\* the register jobs of call i that have not ended
PendingRegistrations(i) ==
  {t \in regQueued : t.owner = i} \cup {t.job : t \in {r \in regRunning : r.job.owner = i}}

\* a faulty variant, for comparison: the bottleneck lets any number of jobs of one pointer run at once
BottleneckFreeUnlimited(pointer) == TRUE

\* Bottleneck({maxConcurrent: 1}), one per pointer: whether a job may start
BottleneckFree(pointer) == \A r \in regRunning : r.job.pointer # pointer

\* what the end of a register job means for its caller: a rejection rejects the
\* caller's Promise.all at once; a lone register call returns when its job ends
AfterRegisterJob(c, i, threw) ==
  IF threw THEN [c EXCEPT ![i].pc = "failed", ![i].error = "UnexpectedCodePathError"]
  ELSE IF c[i].kind = "register" THEN [c EXCEPT ![i].pc = "done"]
  ELSE c

\* a faulty variant, for comparison: the inclusion check is skipped
AlreadyIncludedNever(stateBefore, queryKey) == FALSE

\* stateBefore.queries.includes(queryKey)
AlreadyIncluded(stateBefore, queryKey) ==
  isValidPointerState(stateBefore) /\ Includes(stateBefore.queries, queryKey)

\* the job enters the bottleneck and its cache.get(pointer) returns
RegisterRead(t) ==
  /\ t \in regQueued
  /\ BottleneckFree(t.pointer)
  /\ LET stateBefore == store[t.pointer] IN
     IF ~isValidPointerState(stateBefore) /\ Truthy(stateBefore)
       THEN \* corrupt: throw, the job ends and leaves the bottleneck
            /\ regQueued' = regQueued \ {t}
            /\ call' = AfterRegisterJob(
                 TraceOf(call, t.owner, "get", {t.pointer}, store), t.owner, TRUE)
            /\ UNCHANGED regRunning
       ELSE IF AlreadyIncluded(stateBefore, t.queryKey)
         THEN \* already included: no op
              /\ regQueued' = regQueued \ {t}
              /\ call' = AfterRegisterJob(
                   TraceOf(call, t.owner, "get", {t.pointer}, store), t.owner, FALSE)
              /\ UNCHANGED regRunning
         ELSE \* a cache.set follows
              /\ regQueued' = regQueued \ {t}
              /\ regRunning' = regRunning \cup {[job |-> t, stateBefore |-> stateBefore]}
              /\ call' = TraceOf(call, t.owner, "get", {t.pointer}, store)
  /\ UNCHANGED <<db, store, invQueued, clears>>

\* the state a register job writes
StateToWrite(stateBefore, queryKey) ==
  IF ~isValidPointerState(stateBefore)
    THEN PointerState(<<queryKey>>)
    ELSE PointerState(Append(stateBefore.queries, queryKey))

\* a faulty variant, for comparison: the section is kept when the job ends
DoneWithSectionKept(running, r) == running

\* the scheduled function of the job r settles: Bottleneck takes it off the
\* running jobs of its pointer
Done(running, r) == running \ {r}

\* the job's cache.set(pointer, ...) lands and the job leaves the bottleneck
RegisterWrite(r) ==
  /\ r \in regRunning
  /\ store' = [store EXCEPT ![r.job.pointer] = StateToWrite(r.stateBefore, r.job.queryKey)]
  /\ regRunning' = Done(regRunning, r)
  /\ call' = AfterRegisterJob(
       TraceOf([call EXCEPT ![r.job.owner].writes = @ \cup {r.job.pointer},
                            ![r.job.owner].sets = @ \cup {<<r.job.pointer, Infinity>>}],
               r.job.owner, "set", {r.job.pointer}, store'),
       r.job.owner, FALSE)
  /\ UNCHANGED <<db, regQueued, invQueued, clears>>

\* a lone call of addQueryKeyToDependencyPointer({cache, pointer, queryKey})
RegisterCall(i, pointer, queryKey) ==
  /\ MayStart(i)
  /\ call' = [call EXCEPT ![i] =
       [NoCall EXCEPT !.kind = "register", !.pc = "registering",
                      !.key = queryKey, !.pointers = <<pointer>>]]
  /\ regQueued' = regQueued \cup {RegisterJob(i, 1, pointer, queryKey)}
  /\ UNCHANGED <<db, store, regRunning, invQueued, clears>>

\* --------------------------------------- invalidate (invalidateQueriesByDependencyPointer)
Invalidation(i, pointer) == [owner |-> i, pointer |-> pointer]
Clear(i, pointer, queryKey) == [owner |-> i, pointer |-> pointer, queryKey |-> queryKey]

PendingInvalidations(i) ==
  {t \in invQueued : t.owner = i} \cup {t \in clears : t.owner = i}

\* what the end of an invalidation means for its caller
AfterInvalidation(c, i, threw, settled) ==
  IF threw THEN [c EXCEPT ![i].pc = "failed", ![i].error = "UnexpectedCodePathError"]
  ELSE IF c[i].kind = "invalidate" /\ settled THEN [c EXCEPT ![i].pc = "done"]
  ELSE c

\* a faulty variant, for comparison: the early return on a missing record is dropped
NothingDependsOnNever(pointerState) == FALSE

\* a faulty variant, for comparison: only the first listed query is cleared
ClearsOfFirstOnly(i, pointer, pointerState) ==
  {Clear(i, pointer, pointerState.queries[n]) : n \in DOMAIN pointerState.queries \cap {1}}

\* a faulty variant, for comparison: the clear also drops the pointer's record
StoreAfterClearDroppingRecord(st, queryKey, pointer) ==
  [st EXCEPT ![queryKey] = AbsentValue, ![pointer] = AbsentValue]

\* if (!pointerState) return []: nothing depends on the pointer
NothingDependsOn(pointerState) == ~Truthy(pointerState)

\* pointerState.queries.map((queryKey) => cache.set(queryKey, undefined))
ClearsOf(i, pointer, pointerState) ==
  {Clear(i, pointer, q) : q \in SeqToSet(pointerState.queries)}

\* the store once cache.set(queryKey, undefined) has landed
StoreAfterClear(st, queryKey, pointer) == [st EXCEPT ![queryKey] = AbsentValue]

\* cache.get(pointer) returns: nothing to do, or throw, or start the clears
InvalidateRead(t) ==
  /\ t \in invQueued
  /\ invQueued' = invQueued \ {t}
  /\ LET pointerState == store[t.pointer] IN
     IF NothingDependsOn(pointerState)
       THEN /\ call' = AfterInvalidation(
                 TraceOf([call EXCEPT ![t.owner].noDependents = @ \cup {t.pointer}],
                         t.owner, "get", {t.pointer}, store),
                 t.owner, FALSE, TRUE)
            /\ UNCHANGED clears
       ELSE IF ~isValidPointerState(pointerState)
         THEN /\ call' = AfterInvalidation(
                   TraceOf(call, t.owner, "get", {t.pointer}, store), t.owner, TRUE, TRUE)
              /\ UNCHANGED clears
         ELSE /\ clears' = clears \cup ClearsOf(t.owner, t.pointer, pointerState)
              /\ call' = AfterInvalidation(
                   TraceOf([call EXCEPT ![t.owner].invalidated = @ \o pointerState.queries],
                           t.owner, "get", {t.pointer}, store),
                   t.owner, FALSE, pointerState.queries = <<>>)
  /\ UNCHANGED <<db, store, regQueued, regRunning>>

\* one cache.set(queryKey, undefined) lands
InvalidateClear(t) ==
  /\ t \in clears
  /\ clears' = clears \ {t}
  /\ store' = StoreAfterClear(store, t.queryKey, t.pointer)
  /\ call' = AfterInvalidation(
       TraceOf([call EXCEPT ![t.owner].writes = @ \cup {t.queryKey},
                            ![t.owner].sets = @ \cup {<<t.queryKey, NoExpiration>>}],
               t.owner, "set", {t.queryKey}, store'),
       t.owner, FALSE,
       \A u \in clears \ {t} : u.owner # t.owner)
  /\ UNCHANGED <<db, regQueued, regRunning, invQueued>>

\* a lone call of invalidateQueriesByDependencyPointer({cache, pointer})
InvalidateCall(i, pointer) ==
  /\ MayStart(i)
  /\ call' = [call EXCEPT ![i] =
       [NoCall EXCEPT !.kind = "invalidate", !.pc = "invalidating", !.pointers = <<pointer>>]]
  /\ invQueued' = invQueued \cup {Invalidation(i, pointer)}
  /\ UNCHANGED <<db, store, regQueued, regRunning, clears>>

\* ------------------------------------------------------------- withQueryCaching
\* a faulty variant, for comparison: the register jobs are not awaited
RegistrationsSettledUnawaited(i) == TRUE

\* Promise.all over the register jobs of call i has resolved
RegistrationsSettled(i) == PendingRegistrations(i) = {}

\* const found = await cache.get(key): the read of the query's own entry
QueryGet(i, fn, ship) ==
  /\ MayStartWrapped(i)
  /\ LET key == CacheKey(fn, ship)
         found == store[key]
         started ==
           Trace([call[i] EXCEPT !.kind = "query", !.fn = fn, !.ship = ship, !.key = key],
                 "get", {key}, store)
     IN call' = [call EXCEPT ![i] =
          IF ~Truthy(found)
            THEN Log([started EXCEPT !.pc = "logic"], "ddcache.query.get.miss")
          ELSE IF found.refs = {}
            THEN Log([started EXCEPT !.pc = "done", !.hit = TRUE,
                                     !.result = DefinedResult(Denormalized(found, store))],
                     "ddcache.query.get.hit")
            ELSE [started EXCEPT !.pc = "deref", !.hit = TRUE, !.found = found]]
  /\ UNCHANGED <<db, store, regQueued, regRunning, invQueued, clears>>

\* the same, for a call of getContainerAndShip with an input of two properties
QueryGetOfTwo(i, input) ==
  /\ MayStartWrapped(i)
  /\ LET key == CacheKey("getContainerAndShip", input)
         found == store[key]
         started ==
           Trace([call[i] EXCEPT !.kind = "query", !.fn = "getContainerAndShip",
                                 !.input = input,
                                 !.container = PropertyOfInput(input, "containerUuid"),
                                 !.ship = PropertyOfInput(input, "shipUuid"),
                                 !.key = key],
                 "get", {key}, store)
     IN call' = [call EXCEPT ![i] =
          IF ~Truthy(found)
            THEN Log([started EXCEPT !.pc = "logic"], "ddcache.query.get.miss")
          ELSE IF found.refs = {}
            THEN Log([started EXCEPT !.pc = "done", !.hit = TRUE,
                                     !.result = DefinedResult(Denormalized(found, store))],
                     "ddcache.query.get.hit")
            ELSE [started EXCEPT !.pc = "deref", !.hit = TRUE, !.found = found]]
  /\ UNCHANGED <<db, store, regQueued, regRunning, invQueued, clears>>

\* ...input, as the dependency extractors of the query receive it
InputOf(c) == IF c.fn = "getContainerAndShip" THEN c.input ELSE c.ship

\* the denormalizing cache.get reads the snapshots the entry points to, and
\* the call returns what it found (return found, or return foundNow)
QueryDeref(i) ==
  /\ call[i].kind = "query"
  /\ call[i].pc = "deref"
  /\ LET returned ==
           TraceOf([call EXCEPT
                      ![i].pc = "done",
                      ![i].result = DefinedResult(Denormalized(call[i].found, store))],
                   i, "get", call[i].found.refs, store)
     IN call' = IF call[i].ranLogic THEN returned
                ELSE LogOf(returned, i, "ddcache.query.get.hit")
  /\ UNCHANGED <<db, store, regQueued, regRunning, invQueued, clears>>

\* a faulty variant, for comparison: options.valid is not consulted
IsValidCacheEntryAlways(fn, ship, output) == TRUE

\* !options.valid || options.valid({input, output}): only findShipIfAny sets
\* options.valid, to "a ship was found"
IsValidCacheEntry(fn, ship, output) == fn = "findShipIfAny" => output.ents # {}

\* const output = await logic(...input), then the synchronous code up to the
\* scheduling of one register job per pointer
QueryLogicStep(i) ==
  /\ call[i].kind = "query"
  /\ call[i].pc = "logic"
  /\ LET output == QueryLogic(call[i].fn, db, call[i].ship)
         dependsOn == DependsOnEvaluated(call[i].fn, InputOf(call[i]), output)
         pointers ==
           getDependencyPointersDependedOnByQuery(dependsOn, InputOf(call[i]), output)
         evaluations ==
           IF isAFunction(call[i].fn) THEN Append(call[i].evaluations, output)
           ELSE call[i].evaluations
     IN IF ~IsValidCacheEntry(call[i].fn, call[i].ship, output)
          THEN /\ call' = LogOf([call EXCEPT ![i].pc = "done", ![i].ranLogic = TRUE,
                                             ![i].output = output,
                                             ![i].result = DefinedResult(output)],
                                i, "ddcache.query.set.skip")
               /\ UNCHANGED regQueued
          ELSE IF \E n \in DOMAIN dependsOn : DependencyThrows(dependsOn[n])
            THEN /\ call' = [call EXCEPT
                             ![i].pc = "failed", ![i].ranLogic = TRUE,
                             ![i].output = output,
                             ![i].evaluations = evaluations,
                             ![i].error =
                               "DependencyRelationshipViaUnintuitivePropertyNameError"]
                 /\ UNCHANGED regQueued
            ELSE /\ call' = [call EXCEPT ![i].pc = "persist", ![i].ranLogic = TRUE,
                                         ![i].output = output, ![i].ver = Version,
                                         ![i].pointers = pointers,
                                         ![i].evaluations = evaluations,
                                         ![i].refsPending = {r[1] : r \in References(output)}]
                 /\ regQueued' = regQueued \cup
                      {RegisterJob(i, n, pointers[n], call[i].key) : n \in DOMAIN pointers}
  /\ UNCHANGED <<db, store, regRunning, invQueued, clears>>

\* cache.set(key, output) of the normalizing cache: first each referenced
\* dobj is set to its reference key
QueryPersistRef(i, refKey) ==
  /\ call[i].kind = "query"
  /\ call[i].pc = "persist"
  /\ RegistrationsSettled(i)
  /\ refKey \in call[i].refsPending
  /\ \E r \in References(call[i].output) :
       /\ r[1] = refKey
       /\ store' = [store EXCEPT ![refKey] = Snapshot(r[2])]
  /\ call' = TraceOf(
       [call EXCEPT ![i].refsPending = @ \ {refKey},
                    ![i].writes = @ \cup {refKey},
                    ![i].sets = @ \cup {<<refKey, ReferenceRetention(call[i].fn)>>}],
       i, "set", {refKey}, store')
  /\ UNCHANGED <<db, regQueued, regRunning, invQueued, clears>>

\* a faulty variant, for comparison: the persist sits inside the logging branch
QueryPersistKeyWhenLogged(i) ==
  /\ call[i].kind = "query"
  /\ call[i].pc = "persist"
  /\ RegistrationsSettled(i)
  /\ call[i].refsPending = {}
  /\ store' = IF call[i].logDebug
                THEN [store EXCEPT ![call[i].key] = Normalized(call[i].output)]
                ELSE store
  /\ call' = IF call[i].logDebug
               THEN LogOf(
                      TraceOf(
                        [call EXCEPT
                           ![i].pc = "getNow", ![i].writes = @ \cup {call[i].key},
                           ![i].sets = @ \cup
                             {<<call[i].key, SecondsUntilExpiration(call[i].fn)>>}],
                        i, "set", {call[i].key}, store'),
                      i, "ddcache.query.set")
               ELSE [call EXCEPT ![i].pc = "getNow"]
  /\ UNCHANGED <<db, regQueued, regRunning, invQueued, clears>>

\* ... then the normalized output is set to the query's own key
QueryPersistKey(i) ==
  /\ call[i].kind = "query"
  /\ call[i].pc = "persist"
  /\ RegistrationsSettled(i)
  /\ call[i].refsPending = {}
  /\ store' = [store EXCEPT ![call[i].key] = Normalized(call[i].output)]
  /\ call' = LogOf(
       TraceOf(
         [call EXCEPT
            ![i].pc = "getNow", ![i].writes = @ \cup {call[i].key},
            ![i].sets = @ \cup {<<call[i].key, SecondsUntilExpiration(call[i].fn)>>}],
         i, "set", {call[i].key}, store'),
       i, "ddcache.query.set")
  /\ UNCHANGED <<db, regQueued, regRunning, invQueued, clears>>

\* const foundNow = await cache.get(key); return foundNow
QueryGetNow(i) ==
  /\ call[i].kind = "query"
  /\ call[i].pc = "getNow"
  /\ LET foundNow == store[call[i].key]
         got == Trace(call[i], "get", {call[i].key}, store)
     IN call' = [call EXCEPT ![i] =
          IF foundNow.kind = "absent"
            THEN [got EXCEPT !.pc = "done", !.result = UndefinedResult]
            ELSE IF foundNow.refs = {}
              THEN [got EXCEPT !.pc = "done",
                               !.result = DefinedResult(Denormalized(foundNow, store))]
              ELSE [got EXCEPT !.pc = "deref", !.found = foundNow]]
  /\ UNCHANGED <<db, store, regQueued, regRunning, invQueued, clears>>

\* a faulty variant, for comparison: the rejection is swallowed and the logic retried
QueryLogicThrowsRetried(i) ==
  /\ call[i].kind = "query"
  /\ call[i].pc = "logic"
  /\ call[i].thrown = "none"
  /\ call' = [call EXCEPT ![i].ranLogic = TRUE, ![i].thrown = "LogicError"]
  /\ UNCHANGED <<db, store, regQueued, regRunning, invQueued, clears>>

\* await logic(...input) rejects: the handler has no try/catch, so the call
\* rejects with what the logic threw
QueryLogicThrows(i) ==
  /\ call[i].kind = "query"
  /\ call[i].pc = "logic"
  /\ call' = [call EXCEPT ![i].pc = "failed", ![i].ranLogic = TRUE,
                          ![i].thrown = "LogicError", ![i].error = "LogicError"]
  /\ UNCHANGED <<db, store, regQueued, regRunning, invQueued, clears>>

\* ---------------------------------------------------------- withMutationEffects
\* a faulty variant, for comparison: the invalidations are not awaited
InvalidationsSettledUnawaited(i) == TRUE

\* Promise.all over the invalidations of call i has resolved
InvalidationsSettled(i) == PendingInvalidations(i) = {}

\* const output = await logic(...input): the mutation changes the database
MutationLogicStep(i, c, ship) ==
  /\ MayStartWrapped(i)
  /\ db' = [db EXCEPT ![c] = ship]
  /\ call' = [call EXCEPT ![i] =
       [call[i] EXCEPT !.kind = "mutation", !.pc = "scan", !.fn = "addContainerToShip",
                      !.container = c, !.ship = ship,
                      !.ranLogic = TRUE, !.output = MutationLogic(c, ship),
                      !.ver = Version + 1, !.prior = db[c]]]
  /\ UNCHANGED <<store, regQueued, regRunning, invQueued, clears>>

\* await logic(...input) of addContainerToShip rejects, its change to the
\* database undone: the call rejects with what the logic threw
MutationLogicThrows(i, c, ship) ==
  /\ MayStartWrapped(i)
  /\ call' = [call EXCEPT ![i] =
       [call[i] EXCEPT !.kind = "mutation", !.pc = "failed", !.fn = "addContainerToShip",
                      !.container = c, !.ship = ship, !.ranLogic = TRUE,
                      !.prior = db[c],
                      !.thrown = "LogicError", !.error = "LogicError"]]
  /\ UNCHANGED <<db, store, regQueued, regRunning, invQueued, clears>>

\* const output = await logic(...input) of updateFuelOfShip: the mutation sets the
\* ship's fuel quantity, creating the ship if it does not exist
UpdateFuelLogicStep(i, ship, fuel) ==
  /\ MayStartWrapped(i)
  /\ ship \in DOMAIN db
  /\ db' = [db EXCEPT ![ship] = fuel]
  /\ call' = [call EXCEPT ![i] =
       [call[i] EXCEPT !.kind = "mutation", !.pc = "scan", !.fn = "updateFuelOfShip",
                      !.ship = ship,
                      !.ranLogic = TRUE, !.output = UpdateFuelLogic(ship, fuel),
                      !.ver = Version + 1, !.prior = db[ship]]]
  /\ UNCHANGED <<store, regQueued, regRunning, invQueued, clears>>

\* const output = await logic(...input) of upsertContainer; its rows are read by
\* no query of the fixture, so the database is left as it is
UpsertContainerLogicStep(i, e) ==
  /\ MayStartWrapped(i)
  /\ call' = [call EXCEPT ![i] =
       [call[i] EXCEPT !.kind = "mutation", !.pc = "scan", !.fn = "upsertContainer",
                      !.ranLogic = TRUE, !.output = UpsertContainerLogic(e),
                      !.ver = Version + 1]]
  /\ UNCHANGED <<db, store, regQueued, regRunning, invQueued, clears>>

\* getDependencyPointersInvalidatedByMutation: the cached state of each
\* referenced dobj is read, the pointers follow, one invalidation starts per pointer
MutationScan(i) ==
  /\ call[i].kind = "mutation"
  /\ call[i].pc = "scan"
  /\ LET dobjCached ==
           store[CHOOSE k \in RefKeys : k \in {r[1] : r \in References(call[i].output)}]
     IN IF \E r \in References(call[i].output) : ReferenceThrows(store[r[1]], r[2])
          THEN /\ call' = TraceOf(
                    [call EXCEPT
                       ![i].pc = "failed", ![i].dobjCached = dobjCached,
                       ![i].error =
                         "UndefinableDomainEntityPropertyDependencyInvalidationError"],
                    i, "get", {r[1] : r \in References(call[i].output)}, store)
               /\ UNCHANGED invQueued
          ELSE LET pointers ==
                     getDependencyPointersInvalidatedByMutation(store, call[i].output)
               IN /\ call' = TraceOf(
                       [call EXCEPT
                          ![i].pc = "effects", ![i].pointers = pointers,
                          ![i].refsPending = {r[1] : r \in References(call[i].output)},
                          ![i].dobjCached = dobjCached],
                       i, "get", {r[1] : r \in References(call[i].output)}, store)
                  /\ invQueued' =
                       invQueued \cup {Invalidation(i, pointers[n]) : n \in DOMAIN pointers}
  /\ UNCHANGED <<db, store, regQueued, regRunning, clears>>

\* a faulty variant, for comparison: the snapshot is not written
MutationPersistRefSkipped(i, refKey) ==
  /\ call[i].kind = "mutation"
  /\ call[i].pc = "effects"
  /\ InvalidationsSettled(i)
  /\ refKey \in call[i].refsPending
  /\ call' = [call EXCEPT ![i].refsPending = @ \ {refKey}]
  /\ UNCHANGED <<db, store, regQueued, regRunning, invQueued, clears>>

\* cache.set(refKey, refDobj) for one reference of the output
MutationPersistRef(i, refKey) ==
  /\ call[i].kind = "mutation"
  /\ call[i].pc = "effects"
  /\ InvalidationsSettled(i)
  /\ refKey \in call[i].refsPending
  /\ \E r \in References(call[i].output) :
       /\ r[1] = refKey
       /\ store' = [store EXCEPT ![refKey] = Snapshot(r[2])]
  /\ call' = TraceOf(
       [call EXCEPT
          ![i].refsPending = @ \ {refKey},
          ![i].writes = @ \cup {refKey},
          ![i].sets = @ \cup {<<refKey, DEFAULT_REFERENCE_SECONDS_UNTIL_EXPIRATION>>}],
       i, "set", {refKey}, store')
  /\ UNCHANGED <<db, regQueued, regRunning, invQueued, clears>>

\* return output
MutationReturn(i) ==
  /\ call[i].kind = "mutation"
  /\ call[i].pc = "effects"
  /\ InvalidationsSettled(i)
  /\ call[i].refsPending = {}
  /\ call' = LogOf(
       [call EXCEPT ![i].pc = "done", ![i].result = DefinedResult(call[i].output)],
       i, "ddcache.mutation.effects")
  /\ UNCHANGED <<db, store, regQueued, regRunning, invQueued, clears>>

\* ------------------------------------------- wrapped queries and mutations
Next ==
  \/ \E i \in Calls, fn \in QueryFns, ship \in Ships : QueryGet(i, fn, ship)
  \/ \E i \in Calls : QueryDeref(i)
  \/ \E i \in Calls : QueryLogicStep(i)
  \/ \E t \in regQueued : RegisterRead(t)
  \/ \E r \in regRunning : RegisterWrite(r)
  \/ \E i \in Calls, k \in RefKeys : QueryPersistRef(i, k)
  \/ \E i \in Calls : QueryPersistKey(i)
  \/ \E i \in Calls : QueryGetNow(i)
  \/ \E i \in Calls, c \in Containers, ship \in Ships : MutationLogicStep(i, c, ship)
  \/ \E i \in Calls : MutationScan(i)
  \/ \E t \in invQueued : InvalidateRead(t)
  \/ \E t \in clears : InvalidateClear(t)
  \/ \E i \in Calls, k \in RefKeys : MutationPersistRef(i, k)
  \/ \E i \in Calls : MutationReturn(i)

Spec == Init /\ [][Next]_vars

\* ------------------------------------------------ the registry on its own
NextRegistry ==
  \/ \E i \in Calls, p \in PointerKeys, q \in QueryKeys : RegisterCall(i, p, q)
  \/ \E i \in Calls, p \in PointerKeys : InvalidateCall(i, p)
  \/ \E t \in regQueued : RegisterRead(t)
  \/ \E r \in regRunning : RegisterWrite(r)
  \/ \E t \in invQueued : InvalidateRead(t)
  \/ \E t \in clears : InvalidateClear(t)

\* the registry is exercised against a store that holds a cached output at
\* every query key (as queries with dependsOn: [] leave them)
InitRegistry ==
  /\ db = [c \in Containers |-> "s1"]
  /\ store = [k \in Keys |-> IF k \in QueryKeys THEN QueryEntry(FALSE, {}) ELSE AbsentValue]
  /\ call = [i \in Calls |-> NoCall]
  /\ regQueued = {}
  /\ regRunning = {}
  /\ invQueued = {}
  /\ clears = {}

SpecRegistry == InitRegistry /\ [][NextRegistry]_vars

\* ------------------------------------- the registry against a corrupted pointer
\* as InitRegistry, but something else has written a value that is no record to
\* the pointer key of Container.onShipUuid = s1
InitCorrupt ==
  /\ db = [c \in Containers |-> "s1"]
  /\ \E falsy \in BOOLEAN :
       store = [k \in Keys |->
                  IF k \in QueryKeys THEN QueryEntry(FALSE, {})
                  ELSE IF k = defineDependencyPointerKey(
                                "Container", "onShipUuid", PropertyEquals("s1"))
                    THEN CorruptValue(falsy)
                    ELSE AbsentValue]
  /\ call = [i \in Calls |-> NoCall]
  /\ regQueued = {}
  /\ regRunning = {}
  /\ invQueued = {}
  /\ clears = {}

SpecCorrupt == InitCorrupt /\ [][NextRegistry]_vars

\* ------------------------------------------------ calls run one after another
\* no call is in flight and no store operation is pending
AllSettled ==
  /\ InFlight = {}
  /\ regQueued = {} /\ regRunning = {} /\ invQueued = {} /\ clears = {}

\* the caller awaits each wrapped call before it makes the next one
NextSequential ==
  \/ AllSettled /\ \E i \in Calls, q \in QueryCalls : QueryGet(i, q[1], q[2])
  \/ AllSettled /\ \E i \in Calls, c \in Containers, ship \in Ships :
                     MutationLogicStep(i, c, ship)
  \/ AllSettled /\ \E i \in Calls, ship \in Ships, fuel \in FuelQuantities :
                     UpdateFuelLogicStep(i, ship, fuel)
  \/ \E i \in Calls : QueryDeref(i)
  \/ \E i \in Calls : QueryLogicStep(i)
  \/ \E t \in regQueued : RegisterRead(t)
  \/ \E r \in regRunning : RegisterWrite(r)
  \/ \E i \in Calls, k \in RefKeys : QueryPersistRef(i, k)
  \/ \E i \in Calls : QueryPersistKey(i)
  \/ \E i \in Calls : QueryGetNow(i)
  \/ \E i \in Calls : MutationScan(i)
  \/ \E t \in invQueued : InvalidateRead(t)
  \/ \E t \in clears : InvalidateClear(t)
  \/ \E i \in Calls, k \in RefKeys : MutationPersistRef(i, k)
  \/ \E i \in Calls : MutationReturn(i)

\* the database holds each container on some ship, and each ship with some fuel
\* quantity or not at all; the cache is empty
InitSequential ==
  /\ db \in {f \in [Containers \cup Ships -> Ships \cup FuelQuantities \cup {None}] :
               /\ \A c \in Containers : f[c] \in Ships
               /\ \A s \in Ships : f[s] \in FuelQuantities \cup {None}}
  /\ store = [k \in Keys |-> AbsentValue]
  /\ call = [i \in Calls |-> NoCall]
  /\ regQueued = {}
  /\ regRunning = {}
  /\ invQueued = {}
  /\ clears = {}

SpecSequential == InitSequential /\ [][NextSequential]_vars

\* ------------------------------------------- calls that fail, one after another
NextFailing ==
  \/ AllSettled /\ \E i \in Calls, s \in Ships :
                     QueryGet(i, "getContainersOnShip", s)
  \/ AllSettled /\ \E i \in Calls, s \in Ships :
                     QueryGet(i, "getContainersOfOwner", s)
  \/ AllSettled /\ \E i \in Calls, c \in Containers, ship \in Ships :
                     MutationLogicStep(i, c, ship)
  \/ AllSettled /\ \E i \in Calls, c \in Containers, ship \in Ships :
                     MutationLogicThrows(i, c, ship)
  \/ \E i \in Calls : QueryDeref(i)
  \/ \E i \in Calls : QueryLogicStep(i)
  \/ \E i \in Calls : QueryLogicThrows(i)
  \/ \E t \in regQueued : RegisterRead(t)
  \/ \E r \in regRunning : RegisterWrite(r)
  \/ \E i \in Calls, k \in RefKeys : QueryPersistRef(i, k)
  \/ \E i \in Calls : QueryPersistKey(i)
  \/ \E i \in Calls : QueryGetNow(i)
  \/ \E i \in Calls : MutationScan(i)
  \/ \E t \in invQueued : InvalidateRead(t)
  \/ \E t \in clears : InvalidateClear(t)
  \/ \E i \in Calls, k \in RefKeys : MutationPersistRef(i, k)
  \/ \E i \in Calls : MutationReturn(i)

SpecFailing == Init /\ [][NextFailing]_vars

\* ------------------- queries with and without a key serializer, one after another
NextKeyed ==
  \/ AllSettled /\ \E i \in Calls, s \in Ships : QueryGet(i, "getContainersOnShip", s)
  \/ AllSettled /\ \E i \in Calls, input \in PairInputs : QueryGetOfTwo(i, input)
  \/ \E i \in Calls : QueryDeref(i)
  \/ \E i \in Calls : QueryLogicStep(i)
  \/ \E t \in regQueued : RegisterRead(t)
  \/ \E r \in regRunning : RegisterWrite(r)
  \/ \E i \in Calls, k \in RefKeys : QueryPersistRef(i, k)
  \/ \E i \in Calls : QueryPersistKey(i)
  \/ \E i \in Calls : QueryGetNow(i)

SpecKeyed == Init /\ [][NextKeyed]_vars

\* ------- queries of one, of several and of repeated pointers, at the same time
NextResolved ==
  \/ \E i \in Calls, s \in Ships : QueryGet(i, "getShipAndItsContainers", s)
  \/ \E i \in Calls, s \in Ships : QueryGet(i, "getContainersOnShip", s)
  \/ AllSettled /\ \E i \in Calls, input \in PairInputs : QueryGetOfTwo(i, input)
  \/ \E i \in Calls : QueryDeref(i)
  \/ \E i \in Calls : QueryLogicStep(i)
  \/ \E t \in regQueued : RegisterRead(t)
  \/ \E r \in regRunning : RegisterWrite(r)
  \/ \E i \in Calls, k \in RefKeys : QueryPersistRef(i, k)
  \/ \E i \in Calls : QueryPersistKey(i)
  \/ \E i \in Calls : QueryGetNow(i)

SpecResolved == Init /\ [][NextResolved]_vars

\* ---- concurrent queries of overlapping pointers, some of them corrupted, and a
\* ---- scheduler that lets every started store operation and queued job proceed
\* the pointer key something else may have written a value that is no record to
CorruptiblePointers ==
  {defineDependencyPointerKey("Container", "onShipUuid", PropertyEquals("s1"))}

InitContended ==
  /\ db \in [Containers -> Ships]
  /\ \E corrupted \in SUBSET CorruptiblePointers :
       store = [k \in Keys |-> IF k \in corrupted THEN CorruptValue(FALSE)
                                ELSE AbsentValue]
  /\ call = [i \in Calls |-> NoCall]
  /\ regQueued = {}
  /\ regRunning = {}
  /\ invQueued = {}
  /\ clears = {}

\* the event loop runs every continuation that is ready: a store operation that
\* was started completes, and Bottleneck starts a queued job once its pointer's
\* section is free
Fairness ==
  /\ WF_vars(\E t \in regQueued : RegisterRead(t))
  /\ WF_vars(\E r \in regRunning : RegisterWrite(r))
  /\ WF_vars(\E i \in Calls, k \in RefKeys : QueryPersistRef(i, k))
  /\ WF_vars(\E i \in Calls : QueryPersistKey(i))

NextContended ==
  \/ \E i \in Calls, s \in Ships : QueryGet(i, "getShipAndItsContainers", s)
  \/ \E i \in Calls, s \in Ships : QueryGet(i, "getContainersOnShip", s)
  \/ \E i \in Calls : QueryDeref(i)
  \/ \E i \in Calls : QueryLogicStep(i)
  \/ \E t \in regQueued : RegisterRead(t)
  \/ \E r \in regRunning : RegisterWrite(r)
  \/ \E i \in Calls, k \in RefKeys : QueryPersistRef(i, k)
  \/ \E i \in Calls : QueryPersistKey(i)
  \/ \E i \in Calls : QueryGetNow(i)

SpecContended == InitContended /\ [][NextContended]_vars /\ Fairness

\* ------------- one call made twice from one store: with and without options.logDebug
\* the call made with the callback, and the same call made without it
LoggedCall == 1
UnloggedCall == 2

\* the store as the cached query getContainersOnShip(s1) leaves it when it has
\* found the container c1 on the ship
StoreWithCachedQuery ==
  [k \in Keys |->
     CASE k = QueryKey("getContainersOnShip", "s1") ->
            QueryEntry(FALSE, {RefKey(Entity("c1", "s1"))})
       [] k = defineDependencyPointerKey("Container", "onShipUuid", PropertyEquals("s1")) ->
            PointerState(<<QueryKey("getContainersOnShip", "s1")>>)
       [] k = RefKey(Entity("c1", "s1")) -> Snapshot(Entity("c1", "s1"))
       [] OTHER -> AbsentValue]

\* whether call i may be made with this function and input: the first call is
\* any call, the second repeats the first once the store is put back
MayCompare(i, fn, c, ship) ==
  \/ i = LoggedCall
  \/ /\ i = UnloggedCall
     /\ call[i].rewound
     /\ call[LoggedCall].fn = fn
     /\ call[LoggedCall].container = c
     /\ call[LoggedCall].ship = ship

\* the store and the database are put back to what the first call started from
Rewind ==
  /\ AllSettled
  /\ call[LoggedCall].pc \in {"done", "failed"}
  /\ ~call[UnloggedCall].rewound
  /\ store' = call[UnloggedCall].storeStart
  /\ db' = call[UnloggedCall].dbStart
  /\ call' = [call EXCEPT ![UnloggedCall].rewound = TRUE, ![UnloggedCall].storeEnd = store]
  /\ UNCHANGED <<regQueued, regRunning, invQueued, clears>>

NextLogged ==
  \/ AllSettled /\ \E i \in Calls, fn \in {"getContainersOnShip", "findShipIfAny"}, s \in Ships :
                     MayCompare(i, fn, "none", s) /\ QueryGet(i, fn, s)
  \/ AllSettled /\ \E i \in Calls, c \in Containers, ship \in Ships :
                     MayCompare(i, "addContainerToShip", c, ship)
                     /\ MutationLogicStep(i, c, ship)
  \/ Rewind
  \/ \E i \in Calls : QueryDeref(i)
  \/ \E i \in Calls : QueryLogicStep(i)
  \/ \E t \in regQueued : RegisterRead(t)
  \/ \E r \in regRunning : RegisterWrite(r)
  \/ \E i \in Calls, k \in RefKeys : QueryPersistRef(i, k)
  \/ \E i \in Calls : QueryPersistKey(i)
  \/ \E i \in Calls : QueryGetNow(i)
  \/ \E i \in Calls : MutationScan(i)
  \/ \E t \in invQueued : InvalidateRead(t)
  \/ \E t \in clears : InvalidateClear(t)
  \/ \E i \in Calls, k \in RefKeys : MutationPersistRef(i, k)
  \/ \E i \in Calls : MutationReturn(i)

\* the wrappers of the first call were given options.logDebug, those of the
\* second were not; the store is empty or holds a cached query
InitLogged ==
  /\ db \in [Containers -> Ships]
  /\ store \in {[k \in Keys |-> AbsentValue], StoreWithCachedQuery}
  /\ call =
       [i \in Calls |->
          IF i = LoggedCall THEN [NoCall EXCEPT !.logDebug = TRUE, !.traced = TRUE]
          ELSE IF i = UnloggedCall
            THEN [NoCall EXCEPT !.traced = TRUE, !.storeStart = store, !.dbStart = db]
            ELSE NoCall]
  /\ regQueued = {}
  /\ regRunning = {}
  /\ invQueued = {}
  /\ clears = {}

SpecLogged == InitLogged /\ [][NextLogged]_vars

\* ------------------------------------ mutations of one entity, one after another
NextUpsert ==
  \/ AllSettled /\ \E i \in Calls, e \in CargoContainers : UpsertContainerLogicStep(i, e)
  \/ \E i \in Calls : MutationScan(i)
  \/ \E t \in invQueued : InvalidateRead(t)
  \/ \E t \in clears : InvalidateClear(t)
  \/ \E i \in Calls, k \in RefKeys : MutationPersistRef(i, k)
  \/ \E i \in Calls : MutationReturn(i)

\* the store is as the cached query getCargoContainersOnShip(s1), which depends on
\* the relationship from Ship s1 via CargoContainer.onShipUuid, leaves it when
\* it has found no container
InitUpsert ==
  /\ db = [c \in Containers |-> "s1"]
  /\ store =
       [k \in Keys |->
          IF k = QueryKey("getCargoContainersOnShip", "s1") THEN QueryEntry(FALSE, {})
          ELSE IF k = defineDependencyPointerKey("CargoContainer", "onShipUuid",
                                                PropertyEquals("s1"))
            THEN PointerState(<<QueryKey("getCargoContainersOnShip", "s1")>>)
            ELSE AbsentValue]
  /\ call = [i \in Calls |-> NoCall]
  /\ regQueued = {}
  /\ regRunning = {}
  /\ invQueued = {}
  /\ clears = {}

SpecUpsert == InitUpsert /\ [][NextUpsert]_vars

\* ----------------- mutations of one entity against a corrupted pointer record
\* as InitUpsert, but something else has written a value that is no record to
\* the pointer key of CargoContainer.onShipUuid = s2
InitEffects ==
  /\ db = [c \in Containers |-> "s1"]
  /\ store =
       [k \in Keys |->
          IF k = QueryKey("getCargoContainersOnShip", "s1") THEN QueryEntry(FALSE, {})
          ELSE IF k = defineDependencyPointerKey("CargoContainer", "onShipUuid",
                                                PropertyEquals("s1"))
            THEN PointerState(<<QueryKey("getCargoContainersOnShip", "s1")>>)
          ELSE IF k = defineDependencyPointerKey("CargoContainer", "onShipUuid",
                                                PropertyEquals("s2"))
            THEN CorruptValue(FALSE)
            ELSE AbsentValue]
  /\ call = [i \in Calls |-> NoCall]
  /\ regQueued = {}
  /\ regRunning = {}
  /\ invQueued = {}
  /\ clears = {}

\* the containers the mutations output: with or without uuid, on either ship
ContainersUpserted ==
  {CargoContainer(u, s, <<"g1">>, Null) : u \in {"c1", None}, s \in Ships}

NextEffects ==
  \/ AllSettled /\ \E i \in Calls, e \in ContainersUpserted : UpsertContainerLogicStep(i, e)
  \/ \E i \in Calls : MutationScan(i)
  \/ \E t \in invQueued : InvalidateRead(t)
  \/ \E t \in clears : InvalidateClear(t)
  \/ \E i \in Calls, k \in RefKeys : MutationPersistRef(i, k)
  \/ \E i \in Calls : MutationReturn(i)

SpecEffects == InitEffects /\ [][NextEffects]_vars

\* ==================================================================== claims
\* no wrapped call is in flight and no store operation is pending
Quiescent ==
  /\ InFlight = {}
  /\ regQueued = {} /\ regRunning = {} /\ invQueued = {} /\ clears = {}

\* what a call of query fn with this input would get from the cache now, if it hits
CachedResult(fn, ship) == Denormalized(store[QueryKey(fn, ship)], store)

\* the cache holds, for this query and input, a result the logic would not produce now
StaleEntry(fn, ship) ==
  /\ Truthy(store[QueryKey(fn, ship)])
  /\ CachedResult(fn, ship) # QueryLogic(fn, db, ship)

\* the mutation call m has completed and changed the fact "Container.onShipUuid = ship"
ChangedFact(m, ship) ==
  /\ call[m].kind = "mutation"
  /\ call[m].pc = "done"
  /\ call[m].prior # call[m].ship
  /\ ship \in {call[m].prior, call[m].ship}

\* C1: once a mutation that changed a fact a query depends on has completed, and
\* every call in flight has completed, the store holds no entry for that query
\* computed from the pre-mutation state: a later call would not get a stale result.
C1_NoStaleEntryAfterMutation ==
  \A m \in Calls, fn \in QueryFns, ship \in Ships :
    (ChangedFact(m, ship) /\ Quiescent) => ~StaleEntry(fn, ship)

\* the query call q missed, computed its output before the mutation m changed the
\* database, and its entry is in the store as it persisted it
PersistedPreMutationOutput(q, m) ==
  /\ call[q].kind = "query" /\ call[q].pc = "done" /\ call[q].ranLogic
  /\ call[m].kind = "mutation" /\ call[m].pc = "done"
  /\ call[q].ver < call[m].ver
  /\ ChangedFact(m, call[q].ship)
  /\ store[call[q].key] = Normalized(call[q].output)
  /\ StaleEntry(call[q].fn, call[q].ship)

\* C2: for a query call Q and a mutation call M that impacts a pointer P Q depends
\* on, it never happens that M's invalidation of P finds no registered dependents,
\* Q's pre-mutation output is persisted afterwards, and the stale entry is still
\* there when both calls have completed.
C2_NoMissedInvalidation ==
  \A q \in Calls, m \in Calls :
    ~ /\ PersistedPreMutationOutput(q, m)
      /\ \E P \in SeqToSet(call[q].pointers) :
           P \in SeqToSet(call[m].pointers) /\ P \in call[m].noDependents

\* the query's cache key is registered in the record of every one of its pointers
RegisteredEverywhere(i) ==
  \A n \in DOMAIN call[i].pointers :
    /\ isValidPointerState(store[call[i].pointers[n]])
    /\ Includes(store[call[i].pointers[n]].queries, call[i].key)

\* C3: in a query call that misses with a valid output, every registration write
\* has completed before the write of the query's own entry: the step that writes
\* the entry is taken with no registration pending and the key in every record.
C3_RegisterBeforePersist ==
  [][\A i \in Calls :
       (call[i].kind = "query" /\ call[i].key \notin call[i].writes
          /\ call[i].key \in call'[i].writes)
       => (PendingRegistrations(i) = {} /\ RegisteredEverywhere(i))]_vars

\* C3 witness: a query call has written its own entry after registering a pointer
C3_Witness ==
  \E i \in Calls :
    /\ call[i].kind = "query" /\ call[i].key \in call[i].writes
    /\ call[i].pointers # <<>>
    /\ RegisteredEverywhere(i)

\* C9: once a query call has persisted its valid output under the input's key, a
\* later call with the same input, with no invalidation or expiry of the key in
\* between, is a cache hit that returns without invoking the logic: a call that
\* starts while the key holds a persisted entry hits, and a hit never runs the logic.
C9_HitWhenPersisted ==
  /\ [][\A j \in Calls :
          (call[j].kind = "none" /\ call'[j].kind = "query"
             /\ store[call'[j].key].kind = "entry")
          => (call'[j].hit /\ call'[j].pc # "logic")]_vars
  /\ [](\A j \in Calls : call[j].hit => ~call[j].ranLogic)

\* C10: a query call that misses and whose output is valid returns the output its
\* logic produced, never an absent value, whatever mutation calls run beside it.
C10_MissReturnsLogicOutput ==
  \A i \in Calls :
    (call[i].kind = "query" /\ call[i].pc = "done" /\ call[i].ranLogic
       /\ IsValidCacheEntry(call[i].fn, call[i].ship, call[i].output))
    => (call[i].result.defined /\ call[i].result = DefinedResult(call[i].output))

\* the query call j returns from a cache hit in this step
HitReturns(j) ==
  /\ call'[j].kind = "query" /\ call'[j].hit /\ call'[j].pc = "done"
  /\ call[j].pc # "done"

\* the entry the hit of call j read under its key
EntryRead(j) == IF call[j].kind = "none" THEN store[call'[j].key] ELSE call[j].found

\* the query call i missed and persisted its output under key, the entry is as
\* i wrote it, and so is the snapshot of every entity the output references
StoredAndUntouched(i, key, entry) ==
  /\ call[i].kind = "query" /\ call[i].pc = "done" /\ call[i].ranLogic
  /\ call[i].key = key /\ key \in call[i].writes
  /\ entry = Normalized(call[i].output)
  /\ \A e \in call[i].output.ents : store[RefKey(e)] = Snapshot(e)

RanWithInvalidOutput(i) ==
  /\ call[i].kind = "query" /\ call[i].ranLogic
  /\ call[i].fn = "findShipIfAny" /\ call[i].output.ents = {}

\* C12: when valid(input, output) returns false, the query call returns the
\* logic's output and writes nothing to the store: it ends with the step of its
\* logic, with no register job started, no key written and the store as it was.
C12_InvalidOutputWritesNothing ==
  /\ [](\A i \in Calls : RanWithInvalidOutput(i) =>
          /\ call[i].pc = "done"
          /\ call[i].result = DefinedResult(call[i].output)
          /\ call[i].writes = {}
          /\ PendingRegistrations(i) = {})
  /\ [][\A i \in Calls :
          (call[i].kind = "query" /\ call[i].fn = "findShipIfAny"
             /\ call[i].pc # "done" /\ RanWithInvalidOutput(i)')
          => store' = store]_vars

\* C12 witness: a call whose output was not valid has returned it, with no write
C12_Witness ==
  \E i \in Calls :
    /\ RanWithInvalidOutput(i) /\ call[i].pc = "done"
    /\ call[i].result = DefinedResult(call[i].output) /\ call[i].writes = {}
    /\ store[call[i].key] = AbsentValue

\* the reference keys call i has written a snapshot to
SnapshotsWritten(c, i) == c[i].writes \cap RefKeys

\* C13: in a mutation call the scan reads the prior snapshots first, then every
\* invalidation write of every impacted pointer completes, and only then is a
\* snapshot of the output written: a snapshot is written with the scan done and
\* no invalidation pending, and none is pending while a written snapshot is seen.
C13_SnapshotsAfterInvalidations ==
  /\ [][\A i \in Calls :
          (call[i].kind = "mutation"
             /\ SnapshotsWritten(call', i) # SnapshotsWritten(call, i))
          => (call[i].pc = "effects" /\ PendingInvalidations(i) = {})]_vars
  /\ [](\A i \in Calls :
          (call[i].kind = "mutation" /\ SnapshotsWritten(call, i) # {})
          => PendingInvalidations(i) = {})

\* C13 witness: a mutation has written its snapshot after clearing a query's entry
C13_Witness ==
  \E i \in Calls :
    /\ call[i].kind = "mutation" /\ SnapshotsWritten(call, i) # {}
    /\ call[i].invalidated # <<>>
    /\ \A k \in SeqToSet(call[i].invalidated) : store[k] = AbsentValue

\* --------------------------------------------------------- sequential claims
\* calls i, i+1, i+2 are a query call that left its result in the cache, a
\* mutation call, and a call of the same query with the same input, all returned
QueryMutationQuery(i) ==
  /\ i + 2 \in Calls
  /\ call[i].kind = "query" /\ call[i].pc = "done"
  /\ Truthy(Normalized(call[i].output))
  /\ call[i].hit \/ call[i].key \in call[i].writes
  /\ call[i + 1].kind = "mutation" /\ call[i + 1].pc = "done"
  /\ call[i + 2].kind = "query" /\ call[i + 2].pc = "done"
  /\ call[i + 2].key = call[i].key

\* the mutation call m cleared the cache entry of the query call q
Invalidated(m, q) == Includes(call[m].invalidated, call[q].key)

\* the entity the mutation call m has output
OutputDobj(m) == CHOOSE e \in call[m].output.ents : TRUE

\* C14: run sequentially, once a query result referencing entity E is cached and
\* a mutation whose output holds E in a newer state has completed without
\* invalidating the query, the next call of the query is a hit that returns E's
\* newer state, the snapshot last persisted at E's reference key.
C14_HitReturnsNewerState ==
  \A i \in Calls :
    (/\ QueryMutationQuery(i)
     /\ ~Invalidated(i + 1, i)
     /\ \E e \in call[i].result.ents :
          RefKey(e) = RefKey(OutputDobj(i + 1)) /\ e # OutputDobj(i + 1))
    => /\ call[i + 2].hit /\ ~call[i + 2].ranLogic
       /\ OutputDobj(i + 1) \in call[i + 2].result.ents
       /\ store[RefKey(OutputDobj(i + 1))] = Snapshot(OutputDobj(i + 1))
       /\ \A e \in call[i + 2].result.ents :
            e \in call[i].result.ents \/ e = OutputDobj(i + 1)

\* C14 witness: a hit has returned the fuel quantity a mutation set after the
\* query's result was cached
C14_Witness ==
  \E i \in Calls :
    /\ QueryMutationQuery(i) /\ ~Invalidated(i + 1, i)
    /\ call[i + 1].fn = "updateFuelOfShip"
    /\ call[i + 2].hit
    /\ call[i].result.ents = {ShipEntity(call[i + 1].ship, call[i + 1].prior)}
    /\ call[i + 2].result.ents = {OutputDobj(i + 1)}
    /\ call[i + 1].prior # OutputDobj(i + 1).fuelQuantity

\* the query call i has returned and left an entry under its key
Cached(i) ==
  /\ call[i].kind = "query" /\ call[i].pc = "done"
  /\ call[i].hit \/ call[i].key \in call[i].writes

\* calls i and i+1 are a query call that left an entry and a returned mutation call
QueryThenMutation(i) ==
  /\ i + 1 \in Calls
  /\ Cached(i)
  /\ call[i + 1].kind = "mutation" /\ call[i + 1].pc = "done"

\* the next call after the mutation is the same query with the same input
SameQueryNext(i) ==
  /\ i + 2 \in Calls
  /\ call[i + 2].kind = "query" /\ call[i + 2].key = call[i].key

\* the only dependency the query of call i declares
Dependency(i) == DependsOn(call[i].fn)[1]

\* the dependency is a relationship stored on the target side: via.dobj # from.dobj
ViaTarget(d) == d.type = "relationship" /\ d.viaDobj # d.dobj
\* the dependency is a relationship stored on the source side: via.dobj = from.dobj
ViaSource(d) == d.type = "relationship" /\ d.viaDobj = d.dobj

\* the output of mutation call m holds a dobj of class B whose property p is U with
\* no prior snapshot, or whose p differs from its prior snapshot's, one of them U
RelatesToOrFrom(m, B, p, U) ==
  LET e == OutputDobj(m)
      cached == call[m].dobjCached
  IN /\ e.class = B
     /\ IF ~Truthy(cached)
          THEN PropValue(e, p) = U
          ELSE /\ PropValue(cached.dobj, p) # PropValue(e, p)
               /\ U \in {PropValue(cached.dobj, p), PropValue(e, p)}

\* C15: run sequentially, once a query with a relationship dependency from=(A, U),
\* to=B, via=(B, p) has cached its result, a mutation whose output holds a B entity
\* whose p is U with no prior snapshot, or whose p changed to or from U, clears
\* the query's entry, and the next call with the same input misses and runs the logic.
C15_RelationshipViaTargetInvalidates ==
  \A i \in Calls :
    (/\ QueryThenMutation(i)
     /\ ViaTarget(Dependency(i))
     /\ RelatesToOrFrom(i + 1, Dependency(i).viaDobj, Dependency(i).viaProp, call[i].ship))
    => /\ Invalidated(i + 1, i)
       /\ (i + 2 \in Calls /\ call[i + 2].kind = "none") => store[call[i].key] = AbsentValue
       /\ SameQueryNext(i) => (~call[i + 2].hit /\ call[i + 2].pc # "idle")
       /\ (SameQueryNext(i) /\ call[i + 2].pc = "done") => call[i + 2].ranLogic

\* C15 witness: a container was added to the ship after the query cached the
\* ship's containers, and the next call missed and returned the container
C15_Witness ==
  \E i \in Calls :
    /\ QueryThenMutation(i) /\ ViaTarget(Dependency(i))
    /\ RelatesToOrFrom(i + 1, "Container", "onShipUuid", call[i].ship)
    /\ call[i].fn = "getContainersOnShip" /\ call[i].result.ents = {}
    /\ Invalidated(i + 1, i)
    /\ SameQueryNext(i) /\ call[i + 2].pc = "done" /\ call[i + 2].ranLogic
    /\ call[i + 2].result.ents = {OutputDobj(i + 1)}

\* the output of mutation call m is the dobj of class A with uuid U, and the
\* mutation changed its property onShipUuid
ChangesOnShipUuidOf(m, A, U) ==
  /\ call[m].fn = "addContainerToShip"
  /\ OutputDobj(m).class = A /\ OutputDobj(m).uuid = U
  /\ call[m].prior # OutputDobj(m).onShipUuid

\* C16: run sequentially, once a query with a relationship dependency stored on
\* the source side, from=(A, U), via=(A, p), has cached its result, a mutation
\* whose output holds the A entity U with a changed updatable p clears the query's
\* entry: the identity-specifier pointer the query registered is among the
\* pointers the scan emits, and the next call with the same input misses.
C16_RelationshipViaSourceInvalidates ==
  \A i \in Calls :
    (/\ QueryThenMutation(i)
     /\ ViaSource(Dependency(i))
     /\ Dependency(i).viaProp = "onShipUuid"
     /\ ChangesOnShipUuidOf(i + 1, Dependency(i).dobj, call[i].ship))
    => /\ Includes(call[i + 1].pointers,
                  defineDependencyPointerKey(
                    Dependency(i).viaDobj, Dependency(i).viaProp, PropertyOf(call[i].ship)))
       /\ call[i].hit \/
            SeqToSet(call[i].pointers) \subseteq SeqToSet(call[i + 1].pointers)
       /\ Invalidated(i + 1, i)
       /\ (i + 2 \in Calls /\ call[i + 2].kind = "none") => store[call[i].key] = AbsentValue
       /\ SameQueryNext(i) => (~call[i + 2].hit /\ call[i + 2].pc # "idle")
       /\ (SameQueryNext(i) /\ call[i + 2].pc = "done") => call[i + 2].ranLogic

\* C16 witness: the container moved to another ship after the query cached the
\* container's ship, and the next call missed and returned the other ship
C16_Witness ==
  \E i \in Calls :
    /\ QueryThenMutation(i) /\ call[i].fn = "getShipOfContainer"
    /\ ChangesOnShipUuidOf(i + 1, "Container", call[i].ship)
    /\ call[i].pointers # <<>> /\ call[i].pointers[1] \in SeqToSet(call[i + 1].pointers)
    /\ Invalidated(i + 1, i)
    /\ SameQueryNext(i) /\ call[i + 2].pc = "done" /\ call[i + 2].ranLogic
    /\ call[i + 2].result.ents # {} /\ call[i].result.ents # {}
    /\ call[i + 2].result # call[i].result

\* the pointer a query registers for an identity dependency on (D, U)
IdentityPointer(D, U) == defineDependencyPointerKey(D, "uuid", PropertyEquals(U))

\* the query of call i depends on the identity (D, U) of its input, it cached a
\* result holding the entity U, and the mutation call i+1 output the entity U
\* with a changed fuel quantity
IdentityThenUpdate(i) ==
  /\ QueryThenMutation(i)
  /\ Dependency(i).type = "identity"
  /\ \E e \in call[i].result.ents :
       e.class = Dependency(i).dobj /\ e.uuid = call[i].ship
  /\ call[i + 1].fn = "updateFuelOfShip"
  /\ OutputDobj(i + 1).class = Dependency(i).dobj
  /\ OutputDobj(i + 1).uuid = call[i].ship
  /\ call[i + 1].prior # OutputDobj(i + 1).fuelQuantity

\* C17 as stated: run sequentially, once a query with an identity dependency on
\* (D, U) has cached a result for U, a mutation whose output is U with a changed
\* updatable property invalidates the pointer the query registered, so that the
\* next call with the same input misses and runs the logic again.
C17_IdentityDependencyInvalidated ==
  \A i \in Calls :
    IdentityThenUpdate(i)
    => /\ Includes(call[i + 1].pointers, IdentityPointer(Dependency(i).dobj, call[i].ship))
       /\ Invalidated(i + 1, i)
       /\ (SameQueryNext(i) /\ call[i + 2].pc = "done")
            => (~call[i + 2].hit /\ call[i + 2].ranLogic)

\* C17 amended: the mutation does not invalidate the pointer the query registered
\* (the scan emits pointers of the changed property only) and leaves the query's
\* entry; the next call with the same input is a hit that does not run the logic
\* and returns the updated state, read from the snapshot the mutation persisted.
C17_IdentityDependencyHitsUpdated ==
  \A i \in Calls :
    IdentityThenUpdate(i)
    => /\ ~Includes(call[i + 1].pointers, IdentityPointer(Dependency(i).dobj, call[i].ship))
       /\ ~Invalidated(i + 1, i)
       /\ SameQueryNext(i) => (call[i + 2].hit /\ ~call[i + 2].ranLogic)
       /\ (SameQueryNext(i) /\ call[i + 2].pc = "done")
            => call[i + 2].result.ents = {OutputDobj(i + 1)}

\* C17 witness: the query found the ship, the mutation changed its fuel quantity,
\* and the next call hit and returned the new fuel quantity
C17_Witness ==
  \E i \in Calls :
    /\ IdentityThenUpdate(i) /\ call[i].fn = "findShip" /\ call[i].ranLogic
    /\ SameQueryNext(i) /\ call[i + 2].pc = "done" /\ call[i + 2].hit
    /\ call[i + 2].result.ents = {OutputDobj(i + 1)}
    /\ call[i + 2].result # call[i].result

\* C18: when a mutation outputs an entity of class D with uuid U that has no prior
\* snapshot, every query entry registered through an identity dependency on (D, U)
\* is cleared: the scan emits the pointer those queries registered, the mutation
\* invalidates them, and their entries are gone once it has returned.
C18_CreationClearsIdentityDependents ==
  \A i \in Calls :
    (/\ QueryThenMutation(i)
     /\ Dependency(i).type = "identity"
     /\ OutputDobj(i + 1).class = Dependency(i).dobj
     /\ OutputDobj(i + 1).uuid = call[i].ship
     /\ ~Truthy(call[i + 1].dobjCached))
    => /\ Includes(call[i + 1].pointers, IdentityPointer(Dependency(i).dobj, call[i].ship))
       /\ Invalidated(i + 1, i)
       /\ (i + 2 \in Calls /\ call[i + 2].kind = "none") => store[call[i].key] = AbsentValue

\* the scan of the mutation call m has read a prior snapshot of the entity it
\* output, and every updatable property of the entity equals the snapshot's
NoUpdatableChange(m) ==
  /\ call[m].kind = "mutation" /\ call[m].pc \in {"effects", "done"}
  /\ Truthy(call[m].dobjCached)
  /\ \A p \in SeqToSet(UpdatableProps(OutputDobj(m).class)) :
       PropValue(call[m].dobjCached.dobj, p) = PropValue(OutputDobj(m), p)

\* such a mutation emits no pointer, clears no key and has written no query key
InvalidatesNothing(m) ==
  /\ call[m].pointers = <<>>
  /\ call[m].invalidated = <<>>
  /\ call[m].noDependents = {}
  /\ call[m].writes \cap AllQueryKeys = {}

\* C19: run sequentially, a mutation whose output entity has a prior snapshot and
\* whose updatable properties all equal the snapshot's invalidates zero pointers
\* and writes to no query key: from its scan to its return every query key holds
\* the entry it held before.
C19_UnchangedMutationLeavesQueries ==
  /\ [](\A m \in Calls : NoUpdatableChange(m) => InvalidatesNothing(m))
  /\ [][\A m \in Calls :
         (NoUpdatableChange(m) /\ call[m].pc = "effects")
         => \A k \in AllQueryKeys : store'[k] = store[k]]_vars

\* C19 witness: a mutation that set the fuel quantity the cached ship already had
\* has returned, the query's entry is still there, and the next call is a hit
\* with the result of the first
C19_Witness ==
  \E i \in Calls :
    /\ QueryThenMutation(i) /\ SameQueryNext(i)
    /\ NoUpdatableChange(i + 1) /\ call[i + 1].pc = "done"
    /\ OutputDobj(i + 1) \in call[i].result.ents
    /\ call[i + 1].writes = {RefKey(OutputDobj(i + 1))}
    /\ call[i + 2].pc = "done" /\ call[i + 2].hit /\ ~call[i + 2].ranLogic
    /\ call[i + 2].result = call[i].result
    /\ store[call[i].key] # AbsentValue

\* the updatable properties of the entity the mutation call m output whose value
\* differs from the prior snapshot's
ChangedProps(m) ==
  {p \in SeqToSet(UpdatableProps(OutputDobj(m).class)) :
     PropValue(call[m].dobjCached.dobj, p) # PropValue(OutputDobj(m), p)}

\* the pointers due for property p of the mutation call m: the identity pointer of
\* the entity and the property, and the value pointers of the old and new values
PointersDue(m, p) ==
  LET e == OutputDobj(m) IN
  {defineDependencyPointerKey(e.class, p, PropertyOf(e.uuid)),
   defineDependencyPointerKey(e.class, p, PropertyEquals(PropValue(call[m].dobjCached.dobj, p))),
   defineDependencyPointerKey(e.class, p, PropertyEquals(PropValue(e, p)))}

\* C20: for an entity with a prior snapshot, the scan emits exactly the pointers
\* of the updatable properties whose value differs from the snapshot's: for each,
\* the identity pointer and the value pointers of both the old and the new value,
\* and no pointer of an unchanged property.
C20_ScanEmitsOldAndNewOfChanged ==
  \A m \in Calls :
    (/\ call[m].kind = "mutation" /\ call[m].pc \in {"effects", "done"}
     /\ Truthy(call[m].dobjCached))
    => SeqToSet(call[m].pointers) = UNION {PointersDue(m, p) : p \in ChangedProps(m)}

\* ------------------------------------------------------------ scanner claims
\* the elements of the value of property p of the entity e: the elements of an
\* array, the value itself otherwise
Elements(e, p) == IF IsArray(p) THEN SeqToSet(PropValue(e, p)) ELSE {PropValue(e, p)}

\* the scan of the mutation call m has run without throwing
Scanned(m) == call[m].kind = "mutation" /\ call[m].pc \in {"effects", "done"}

\* the identity pointer of property p of the entity e, and the value pointers of
\* every element of its current value
PointersOfCurrent(e, p) ==
  {defineDependencyPointerKey(e.class, p, PropertyOf(e.uuid))}
  \cup {defineDependencyPointerKey(e.class, p, PropertyEquals(v)) : v \in Elements(e, p)}

\* C21: for an entity with no prior snapshot, the scan emits, for every
\* non-metadata property, updatable or not, the identity pointer of the entity
\* and the property and a value pointer for each element of the property's
\* current value, and nothing else.
C21_FirstWriteEmitsEveryProperty ==
  \A m \in Calls :
    (Scanned(m) /\ ~Truthy(call[m].dobjCached))
    => SeqToSet(call[m].pointers) =
         UNION {PointersOfCurrent(OutputDobj(m), p) :
                  p \in SeqToSet(NonMetadataProps(OutputDobj(m).class))}

\* C21 witness: a container with two insured cargos and no prior snapshot was
\* scanned; the pointers name icid, which is not updatable, and both cargos
C21_Witness ==
  \E m \in Calls :
    /\ Scanned(m) /\ call[m].pc = "done" /\ ~Truthy(call[m].dobjCached)
    /\ OutputDobj(m).class = "CargoContainer"
    /\ OutputDobj(m).insuredCargoUuids = <<"g1", "g2">>
    /\ "icid" \notin SeqToSet(UpdatableProps("CargoContainer"))
    /\ {defineDependencyPointerKey("CargoContainer", "icid", PropertyOf("c1")),
        defineDependencyPointerKey("CargoContainer", "icid", PropertyEquals("i1")),
        defineDependencyPointerKey("CargoContainer", "insuredCargoUuids", PropertyEquals("g1")),
        defineDependencyPointerKey("CargoContainer", "insuredCargoUuids", PropertyEquals("g2"))}
         \subseteq SeqToSet(call[m].pointers)

\* C22: for every changed property of a scanned entity, the scan's output holds
\* a value pointer for every element of the old value(s) of the prior snapshot
\* and of the new value(s) of the mutation output; an array contributes one
\* pointer per element.
C22_ValuePointersOfOldAndNew ==
  \A m \in Calls :
    (Scanned(m) /\ Truthy(call[m].dobjCached))
    => \A p \in ChangedProps(m) :
         \A v \in Elements(call[m].dobjCached.dobj, p) \cup Elements(OutputDobj(m), p) :
           Includes(call[m].pointers,
                    defineDependencyPointerKey(OutputDobj(m).class, p, PropertyEquals(v)))

\* C23: a mutation whose output holds an entity without a uuid fails with the
\* configuration error once its scan has run, whether or not a prior snapshot of
\* the entity exists and whether or not any property changed; it never goes on
\* to its effects or returns.
C23_EntityWithoutUuidFails ==
  \A m \in Calls :
    (/\ call[m].kind = "mutation" /\ call[m].pc # "scan"
     /\ ~HasUuid(OutputDobj(m)))
    => /\ call[m].pc = "failed"
       /\ call[m].writes = {}

\* ------------------------------------------------------ corrupt record claims
\* the value is present at its key and is not a valid record
PresentAndInvalid(v) == v.kind # "absent" /\ ~isValidPointerState(v)

\* C24: whenever a register or an invalidate reads, at the pointer key, a value
\* that is present and is not a valid record, the operation fails and writes
\* nothing: no job goes on to its cache.set, no clear is started, and the failed
\* call has written no key.
C24_CorruptRecordFailsWithoutWrite ==
  /\ [](\A i \in Calls :
          (call[i].kind \in {"register", "invalidate"} /\ call[i].pc = "failed")
          => call[i].writes = {})
  /\ [][(\A t \in regQueued \ regQueued' :
            PresentAndInvalid(store[t.pointer])
            => (call'[t.owner].pc = "failed" /\ regRunning' = regRunning))
         /\ (\A u \in invQueued \ invQueued' :
               PresentAndInvalid(store[u.pointer])
               => (call'[u.owner].pc = "failed" /\ clears' = clears))]_vars

\* ------------------------------------------------------------ failure claims
\* the wrapped logic of call i has thrown
LogicFailed(i) == call[i].thrown # "none"

\* C25: when the wrapped logic of a query call or of a mutation call fails, the
\* call rejects with the same error, the logic is not run again, and the call
\* writes nothing: it has no write, no registration and no invalidation under
\* way, and it takes no further step.
C25_LogicErrorPropagates ==
  /\ [](\A i \in Calls :
          LogicFailed(i)
          => /\ call[i].pc = "failed" /\ call[i].error = call[i].thrown
             /\ call[i].result = UndefinedResult
             /\ call[i].writes = {}
             /\ PendingRegistrations(i) = {} /\ PendingInvalidations(i) = {})
  /\ [][\A i \in Calls :
         LogicFailed(i) => call'[i] = call[i]]_vars

\* C25 witness: the logic of a query call failed after a miss and the logic of a
\* mutation call failed, both calls rejected with the logic's error, and the
\* store is as it was at the start
C25_Witness ==
  \E i, j \in Calls :
    /\ call[i].kind = "query" /\ LogicFailed(i) /\ ~call[i].hit
    /\ call[j].kind = "mutation" /\ LogicFailed(j)
    /\ call[i].error = "LogicError" /\ call[j].error = "LogicError"
    /\ store = [k \in Keys |-> AbsentValue]

\* the dependency list of the query fn holds a relationship whose via property
\* is not named after the entity class of the other side
HasUnintuitiveVia(fn) ==
  \E n \in DOMAIN DependsOn(fn) :
    LET d == DependsOn(fn)[n] IN
    /\ d.type = "relationship"
    /\ \/ ViaSource(d) /\ ~isPropertyNameAReferenceIntuitively(d.viaProp, d.toDobj)
       \/ ViaTarget(d) /\ ~isPropertyNameAReferenceIntuitively(d.viaProp, d.dobj)

\* the query call i has run the dependency resolution: its logic returned
ResolutionRan(i) ==
  /\ call[i].kind = "query" /\ call[i].ranLogic /\ ~LogicFailed(i)
  /\ call[i].pc # "logic"

\* C26: when the dependency list of a query holds a relationship whose via
\* property fails the naming check, the call that ran the resolution fails with
\* the configuration error: no pointer is emitted, nothing is registered or
\* persisted, no record lists the query's key, and the call takes no further step.
C26_UnintuitiveViaFailsQuery ==
  /\ [](\A i \in Calls :
          (ResolutionRan(i) /\ HasUnintuitiveVia(call[i].fn))
          => /\ call[i].pc = "failed"
             /\ call[i].error = "DependencyRelationshipViaUnintuitivePropertyNameError"
             /\ call[i].pointers = <<>>
             /\ call[i].writes = {}
             /\ PendingRegistrations(i) = {}
             /\ store[call[i].key] = AbsentValue
             /\ \A k \in AllPointerKeys : ~Includes(store[k].queries, call[i].key))
  /\ [][\A i \in Calls :
         (ResolutionRan(i) /\ HasUnintuitiveVia(call[i].fn)) => call'[i] = call[i]]_vars

\* C26 witness: a call of getContainersOfOwner, whose second declaration is via
\* Container.ownerUuid, ran its logic, found a container and failed; a second
\* call with the same input missed again and failed the same way
C26_Witness ==
  \E i, j \in Calls :
    /\ i < j
    /\ ResolutionRan(i) /\ ResolutionRan(j)
    /\ call[i].fn = "getContainersOfOwner" /\ call[j].fn = "getContainersOfOwner"
    /\ call[i].key = call[j].key
    /\ call[i].output.ents # {}
    /\ call[i].pc = "failed" /\ call[j].pc = "failed" /\ ~call[j].hit
    /\ ~DependencyThrows(DependsOn(call[i].fn)[1])

\* -------------------------------------------------------- pointer key claims
\* a fact is the class, the property and the specifier a pointer key is derived
\* from; the keys of a set of facts, each derived anew
KeysOfFacts(facts) == {defineDependencyPointerKey(f[1], f[2], f[3]) : f \in facts}

\* the query call i has resolved its declarations and scheduled its registrations
Resolved(i) ==
  /\ call[i].kind = "query" /\ call[i].ranLogic /\ call[i].error = "none"
  /\ IsValidCacheEntry(call[i].fn, call[i].ship, call[i].output)

\* the facts one declaration of a query names, for the call's input and output
FactsOfDependency(dependency, ship, output) ==
  LET uuids == SeqToSet(ExtractUuids(dependency.uuid, ship, output)) IN
  IF dependency.type = "identity"
    THEN {<<dependency.dobj, "uuid", PropertyEquals(u)>> : u \in uuids}
    ELSE IF dependency.viaDobj = dependency.dobj
      THEN {<<dependency.viaDobj, dependency.viaProp, PropertyOf(u)>> : u \in uuids}
      ELSE {<<dependency.viaDobj, dependency.viaProp, PropertyEquals(u)>> : u \in uuids}

\* the facts the query call i depends on
FactsDependedOn(i) ==
  LET dependsOn == DependsOn(call[i].fn) IN
  UNION {FactsOfDependency(dependsOn[n], InputOf(call[i]), call[i].output) :
           n \in DOMAIN dependsOn}

\* the facts the mutation call j changes: for each impacted property of its
\* output, the property of the instance and the values it had and has
FactsImpacted(j) ==
  LET e == OutputDobj(j)
      old == call[j].dobjCached
  IN UNION {
       {<<e.class, p, PropertyOf(e.uuid)>>}
       \cup {<<e.class, p, PropertyEquals(v)>> : v \in Elements(e, p)}
       \cup (IF Truthy(old)
               THEN {<<e.class, p, PropertyEquals(v)>> :
                       v \in {w \in Elements(old.dobj, p) : IsArray(p) \/ ValueTruthy(w)}}
               ELSE {}) :
       p \in SeqToSet(PropertiesImpacted(old, e))}

\* the facts a query call i depends on and a mutation call j changes
FactsShared(i, j) == FactsDependedOn(i) \cap FactsImpacted(j)

Occurrences(queries, queryKey) == Cardinality({n \in DOMAIN queries : queries[n] = queryKey})

\* ------------------------------------------------------------ resolver claims
\* the query call i has resolved its pointers
HasResolved(i) ==
  /\ call[i].kind = "query" /\ call[i].ranLogic
  /\ call[i].pc \in {"persist", "getNow", "deref", "done"}
  /\ IsValidCacheEntry(call[i].fn, call[i].ship, call[i].output)

\* the declarations the call i resolved
Declarations(i) == DependsOnEvaluated(call[i].fn, InputOf(call[i]), call[i].output)

\* the ids the n-th declaration of the call i extracts
IdsOfDeclaration(i, n) ==
  ExtractUuids(Declarations(i)[n].uuid, InputOf(call[i]), call[i].output)

RECURSIVE IdsBefore(_, _)
\* how many ids the declarations before the n-th extract
IdsBefore(i, n) ==
  IF n = 1 THEN 0 ELSE IdsBefore(i, n - 1) + Len(IdsOfDeclaration(i, n - 1))

\* the pointer a declaration has for one id: an identity declaration the
\* value-specifier pointer of (entityClass, uuid, id); a relationship the
\* pointer on (via.entityClass, via.property), identity-specifier when
\* via.entityClass is from.entityClass and value-specifier otherwise
PointerDeclared(d, id) ==
  IF d.type = "identity"
    THEN <<".query.dep", d.dobj, "uuid">> \o serializePropertyValue(id)
    ELSE IF d.viaDobj = d.dobj
      THEN <<".query.dep", d.viaDobj, "uuid", id, d.viaProp>>
      ELSE <<".query.dep", d.viaDobj, d.viaProp>> \o serializePropertyValue(id)

\* C33: the resolver's output is the concatenation, in declaration order and
\* without deduplication, of one pointer per id a declaration extracts: as many
\* pointers as ids, and at the place of the j-th id of the n-th declaration the
\* pointer of that declaration for that id.
C33_ResolverConcatenatesInOrder ==
  \A i \in Calls :
    HasResolved(i)
    => LET ds == Declarations(i) IN
       /\ Len(call[i].pointers) = IdsBefore(i, Len(ds) + 1)
       /\ \A n \in DOMAIN ds : \A j \in DOMAIN IdsOfDeclaration(i, n) :
            call[i].pointers[IdsBefore(i, n) + j] =
              PointerDeclared(ds[n], IdsOfDeclaration(i, n)[j])

\* C33 witness: a query of three declarations (an identity, a relationship via
\* the other class, a relationship via the class itself) has resolved three
\* pointers, and a query whose declaration extracts the same id twice has
\* resolved the same pointer twice
C33_Witness ==
  \E i, j \in Calls :
    /\ HasResolved(i) /\ call[i].fn = "getContainerAndShip"
    /\ Len(call[i].pointers) = 3
    /\ HasResolved(j) /\ call[j].fn = "getShipAndItsContainers"
    /\ Len(call[j].pointers) = 2 /\ call[j].pointers[1] = call[j].pointers[2]

\* the query call i was wrapped with a function-valued dependsOn
DependsOnAFunction(i) == call[i].kind = "query" /\ isAFunction(call[i].fn)

\* the call i found its key in the cache and returns that
HitTheCache(i) == call[i].kind = "query" /\ call[i].pc \in {"deref", "done"} /\ ~call[i].ranLogic

\* the logic of the call i has run and gave an output that is not valid: no ship
RanWithNoShip(i) == call[i].ranLogic /\ call[i].output.ents = {}

\* the logic of the call i has run and gave a valid output: a ship
RanWithAShip(i) == call[i].ranLogic /\ call[i].thrown = "none" /\ call[i].output.ents # {}

\* C34: a function-valued dependsOn is evaluated exactly once per query call
\* that misses with a valid output, after the logic has produced the output and
\* with that output as argument, and never on a cache hit or when the output
\* is invalid; an evaluation is never repeated or taken back.
C34_DependsOnEvaluatedOncePerValidMiss ==
  /\ [](\A i \in Calls :
          DependsOnAFunction(i)
          => /\ RanWithAShip(i) => call[i].evaluations = <<call[i].output>>
             /\ ~RanWithAShip(i) => call[i].evaluations = <<>>
             /\ HitTheCache(i) \/ RanWithNoShip(i) => call[i].evaluations = <<>>)
  /\ [][\A i \in Calls :
          (DependsOnAFunction(i) /\ call[i].evaluations # <<>>)
          => call'[i].evaluations = call[i].evaluations]_vars

\* C34 witness: of three calls of findShipIfAny one missed with a ship and
\* evaluated the function with its output, one hit the cache and one missed with
\* no ship, and neither of these evaluated it
C34_Witness ==
  \E i, j, k \in Calls :
    /\ DependsOnAFunction(i) /\ DependsOnAFunction(j) /\ DependsOnAFunction(k)
    /\ call[i].pc = "done" /\ RanWithAShip(i) /\ call[i].evaluations = <<call[i].output>>
    /\ call[j].pc = "done" /\ HitTheCache(j) /\ call[j].evaluations = <<>>
    /\ call[k].pc = "done" /\ RanWithNoShip(k) /\ call[k].evaluations = <<>>

\* the pointers resolved for the query call i hold the same pointer more than once
HasRepeatedPointer(i) ==
  /\ call[i].kind = "query"
  /\ \E a, b \in DOMAIN call[i].pointers : a < b /\ call[i].pointers[a] = call[i].pointers[b]

\* no pointer of the call i holds a value that is no record
NoPointerCorrupt(i) == \A p \in SeqToSet(call[i].pointers) : store[p].kind # "corrupt"

\* C37: when the pointers resolved for one query call contain the same pointer
\* more than once, the registrations the call starts concurrently for that
\* pointer leave its record with exactly one occurrence of the query's key:
\* never more than one, and one when the registrations have ended; and the call
\* still goes on to persist its output.
C37_RepeatedPointerRegisteredOnce ==
  /\ [](\A i \in Calls : HasRepeatedPointer(i) =>
          \A p \in SeqToSet(call[i].pointers) :
            /\ isValidPointerState(store[p])
                 => Occurrences(store[p].queries, call[i].key) <= 1
            /\ (RegistrationsSettled(i) /\ call[i].pc # "failed")
                 => /\ isValidPointerState(store[p])
                    /\ Occurrences(store[p].queries, call[i].key) = 1)
  /\ \A i \in Calls :
       (HasRepeatedPointer(i) /\ NoPointerCorrupt(i))
       ~> (call[i].pc \in {"getNow", "deref", "done"} /\ call[i].key \in call[i].writes)

\* C37 witness: a call whose pointers hold one pointer twice has returned, with
\* its key listed once in the record and its output persisted under its key
C37_Witness ==
  \E i \in Calls :
    /\ HasRepeatedPointer(i) /\ call[i].pc = "done"
    /\ Occurrences(store[call[i].pointers[1]].queries, call[i].key) = 1
    /\ call[i].key \in call[i].writes
    /\ store[call[i].key] = Normalized(call[i].output)

\* a registration of the query call i has failed
RegistrationFailed(i) ==
  call[i].kind = "query" /\ call[i].error = "UnexpectedCodePathError"

\* the call i has written its query's own cache entry or an entity snapshot
PersistedOutput(i) == call[i].key \in call[i].writes \/ call[i].writes \cap RefKeys # {}

\* C39: if any registration of a query call fails, the call fails and never
\* writes the query's own cache entry or any entity snapshot, and a query entry
\* exists in the store only if every one of its registrations succeeded first:
\* a call persists with all its registrations ended, none failed, and its key
\* listed in the record of each of its pointers, and every entry in the store
\* was written by such a call.
C39_FailedRegistrationPersistsNothing ==
  /\ [](\A i \in Calls :
          RegistrationFailed(i) => call[i].pc = "failed" /\ ~PersistedOutput(i))
  /\ [][\A i \in Calls : RegistrationFailed(i) => RegistrationFailed(i)']_vars
  /\ [](\A i \in Calls :
          (call[i].kind = "query" /\ PersistedOutput(i))
          => /\ PendingRegistrations(i) = {} /\ ~RegistrationFailed(i)
             /\ \A p \in SeqToSet(call[i].pointers) :
                  /\ isValidPointerState(store[p])
                  /\ Includes(store[p].queries, call[i].key))
  /\ [](\A k \in QueryKeys \cup ShipAndContainersQueryKeys :
          store[k] # AbsentValue
          => \E i \in Calls : call[i].key = k /\ k \in call[i].writes)

\* C39 witness: a call has failed on a corrupt record and written neither its
\* entry nor a snapshot, its key is absent from the store, and another call,
\* whose registrations succeeded, has persisted its entry
C39_Witness ==
  \E i, j \in Calls :
    /\ RegistrationFailed(i) /\ call[i].pc = "failed" /\ ~PersistedOutput(i)
    /\ call[i].output.ents # {}
    /\ store[call[i].key] = AbsentValue
    /\ call[j].kind = "query" /\ call[j].pc = "done" /\ call[j].key \in call[j].writes
    /\ store[call[j].key] # AbsentValue

\* the scan of the mutation call m has failed
ScanFailed(m) ==
  /\ call[m].kind = "mutation"
  /\ call[m].error = "UndefinableDomainEntityPropertyDependencyInvalidationError"

\* an invalidation of the mutation call m has failed
InvalidationFailed(m) ==
  call[m].kind = "mutation" /\ call[m].error = "UnexpectedCodePathError"

\* C40: a mutation call writes entity snapshots to reference keys only if its
\* scan and every one of its invalidations succeeded: a call that has written a
\* snapshot has no error and no invalidation pending, a call whose scan or
\* invalidation failed has failed for good and written no snapshot, and every
\* change of a snapshot in the store is the write of a call whose scan and
\* invalidations have all succeeded, so the prior snapshots stay as they were.
C40_SnapshotsOnlyAfterSuccess ==
  /\ [](\A m \in Calls :
          (call[m].kind = "mutation" /\ SnapshotsWritten(call, m) # {})
          => /\ call[m].error = "none" /\ call[m].pc \in {"effects", "done"}
             /\ PendingInvalidations(m) = {})
  /\ [](\A m \in Calls :
          (ScanFailed(m) \/ InvalidationFailed(m))
          => call[m].pc = "failed" /\ SnapshotsWritten(call, m) = {})
  /\ [][\A m \in Calls :
          (ScanFailed(m) \/ InvalidationFailed(m))
          => call'[m].pc = "failed" /\ call'[m].error = call[m].error]_vars
  /\ [][\A k \in RefKeys :
          store'[k] # store[k]
          => \E m \in Calls :
               /\ call[m].kind = "mutation" /\ call[m].pc = "effects"
               /\ call[m].error = "none" /\ PendingInvalidations(m) = {}
               /\ k \in SnapshotsWritten(call', m)
               /\ store'[k] = Snapshot(OutputDobj(m))]_vars

\* C40 witness: after a mutation that persisted the snapshot of its output,
\* one mutation has failed in an invalidation and one in its scan, neither has
\* written a snapshot, and the store still holds the snapshot of the first
C40_Witness ==
  \E m1, m2, m3 \in Calls :
    /\ call[m1].kind = "mutation" /\ call[m1].pc = "done"
    /\ SnapshotsWritten(call, m1) # {}
    /\ InvalidationFailed(m2) /\ SnapshotsWritten(call, m2) = {}
    /\ ScanFailed(m3) /\ SnapshotsWritten(call, m3) = {}
    /\ OutputDobj(m2) # OutputDobj(m1) /\ OutputDobj(m3) # OutputDobj(m1)
    /\ \A k \in SnapshotsWritten(call, m1) : store[k] = Snapshot(OutputDobj(m1))

\* C38: under fair scheduling and a store whose operations complete, every
\* register call eventually completes, whether it succeeds or fails: the
\* registrations a query call has started all end, those of concurrent calls on
\* the same pointers too; a job is in one pointer's section only, and is in no
\* section once it has ended.
C38_RegistrationsComplete ==
  /\ \A i \in Calls : (PendingRegistrations(i) # {}) ~> (PendingRegistrations(i) = {})
  /\ [](\A r1, r2 \in regRunning : r1.job = r2.job => r1 = r2)
  /\ [](\A r \in regRunning : r.job \notin regQueued)

\* C38 witness: two calls at once have registrations pending against the same
\* pointer, one of them two, and one of the jobs is in the pointer's section
C38_Witness ==
  \E i, j \in Calls : \E r \in regRunning :
    /\ i # j /\ r.job.owner = i
    /\ Cardinality({t \in PendingRegistrations(i) : t.pointer = r.job.pointer}) = 2
    /\ \E t \in regQueued : t.owner = j /\ t.pointer = r.job.pointer

\* ------------------------------------------------- mutation invalidation claims
\* the query keys the call m has overwritten with the absent marker: its writes
\* that are no snapshot
ClearedBy(m) == call[m].writes \ RefKeys

\* the scan of the mutation call m runs in this step and emits pointers
ScansNow(m) == call[m].pc = "scan" /\ call'[m].pc = "effects"

\* the answer of the invalidation t of a mutation arrives in this step
MutationReadsNow(t) ==
  /\ t \in invQueued /\ t \notin invQueued'
  /\ call[t.owner].kind = "mutation"

\* C32: the set of query keys a mutation call overwrites with the absent marker
\* equals the union, over the pointers its scan emitted, of the query keys
\* listed in those pointers' records at the time they were read, and the
\* mutation clears no other query key: the scan starts one invalidation per
\* emitted pointer, each read adds the keys the record lists then to the keys to
\* clear, the call clears keys of that union only, and has cleared all of it
\* when it returns.
C32_ClearsUnionOfListedKeys ==
  /\ [][\A m \in Calls :
          (call[m].kind = "mutation" /\ ScansNow(m))
          => invQueued' = invQueued \cup
               {Invalidation(m, p) : p \in SeqToSet(call'[m].pointers)}]_vars
  /\ [][\A t \in invQueued :
          MutationReadsNow(t)
          => /\ t.pointer \in SeqToSet(call[t.owner].pointers)
             /\ SeqToSet(call'[t.owner].invalidated) =
                  SeqToSet(call[t.owner].invalidated)
                  \cup (IF isValidPointerState(store[t.pointer])
                          THEN SeqToSet(store[t.pointer].queries) ELSE {})]_vars
  /\ [](\A m \in Calls :
          call[m].kind = "mutation"
          => /\ ClearedBy(m) \subseteq SeqToSet(call[m].invalidated)
             /\ call[m].pc = "done"
                => /\ PendingInvalidations(m) = {}
                   /\ ClearedBy(m) = SeqToSet(call[m].invalidated))

\* C32 witness: a mutation has returned that cleared the keys of two queries,
\* listed in the records of two of its pointers: the ship the container left
\* and the ship it went to
C32_Witness ==
  \E m \in Calls :
    /\ call[m].kind = "mutation" /\ call[m].pc = "done"
    /\ \E fn1, fn2 \in QueryFns :
         {QueryKey(fn1, "s1"), QueryKey(fn2, "s2")} \subseteq ClearedBy(m)
    /\ ClearedBy(m) = SeqToSet(call[m].invalidated)

\* --------------------------------------------------------- bottleneck claims
\* the register jobs between their read of the record and the end of their write
InSection(pointer) == {r \in regRunning : r.job.pointer = pointer}

\* C31: within one process at most one register call per pointer is inside its
\* read-modify-write section at any time; register calls on distinct pointers
\* are not held back by each other (the witness has two of them inside their
\* sections at once).
C31_OneInSectionPerPointer ==
  /\ \A p \in Keys : Cardinality(InSection(p)) <= 1
  /\ \A t \in regQueued :
       (ENABLED RegisterRead(t)) <=> InSection(t.pointer) = {}

\* C31 witness: two register calls on distinct pointers are inside their
\* sections at once, while a third call waits for one of the two pointers
C31_Witness ==
  \E r1, r2 \in regRunning :
    /\ r1.job.pointer # r2.job.pointer
    /\ r1.job.owner # r2.job.owner
    /\ \E t \in regQueued : t.pointer = r1.job.pointer

\* ------------------------------------------------------------ logging claims
\* both compared calls have returned or thrown, the second from the store and
\* the database the first started from
Compared ==
  /\ AllSettled
  /\ call[LoggedCall].pc \in {"done", "failed"}
  /\ call[UnloggedCall].pc \in {"done", "failed"}

\* C27: a call made through wrappers that were given a logging callback (one
\* that returns) and the same call made from the same store through wrappers
\* that were given none return the same value or fail alike, make the same
\* reads and writes of the store, in the same order at every key and with the
\* same values, and leave the same store; operations that one Promise.all has in
\* flight at different keys have no order in either run.
C27_LoggingDoesNotAlterBehaviour ==
  /\ call[UnloggedCall].ops \subseteq call[LoggedCall].ops
  /\ call[UnloggedCall].logs = <<>>
  /\ Compared
     => /\ call[UnloggedCall].pc = call[LoggedCall].pc
        /\ call[UnloggedCall].result = call[LoggedCall].result
        /\ call[UnloggedCall].error = call[LoggedCall].error
        /\ call[UnloggedCall].ops = call[LoggedCall].ops
        /\ store = call[UnloggedCall].storeEnd

\* C27 witness: a query that missed, registered, persisted and logged twice has
\* been repeated without the callback
C27_Witness ==
  /\ Compared
  /\ call[LoggedCall].kind = "query" /\ call[LoggedCall].ranLogic
  /\ call[LoggedCall].logs = <<"ddcache.query.get.miss", "ddcache.query.set">>
  /\ call[LoggedCall].writes # {}
  /\ call[UnloggedCall].ranLogic /\ call[UnloggedCall].ops # {}

\* ---------------------------------------------------------- cache key claims
\* the key of the query call i is the caller's serializer applied to the input
\* when one was given, and the default serialization of the input otherwise
KeyIsSerializationOfInput(i) ==
  call[i].key =
    IF SerializeKeyGiven(call[i].fn)
      THEN QueryKey(call[i].fn, call[i].ship)
      ELSE JSONStringify(call[i].input)

\* the registrations and the persist of the query call i use the key of its
\* cache check
KeyUsedThroughout(i) ==
  /\ \A t \in regQueued : t.owner = i => t.queryKey = call[i].key
  /\ \A r \in regRunning : r.job.owner = i => r.job.queryKey = call[i].key
  /\ \A k \in call[i].writes :
       \/ k = call[i].key
       \/ k \in RefKeys
       \/ (k \in SeqToSet(call[i].pointers)
           /\ (isValidPointerState(store[k]) => Includes(store[k].queries, call[i].key)))

\* two calls of one query whose inputs hold the same properties with the same values
EqualInputs(i, j) ==
  /\ call[i].kind = "query" /\ call[j].kind = "query"
  /\ call[i].fn = call[j].fn
  /\ call[i].ship = call[j].ship
  /\ call[i].container = call[j].container

\* the key is the serialization of the input and is used throughout the call
C30_KeyDerivedOnceAndUsedThroughout ==
  \A i \in Calls :
    call[i].kind = "query" => KeyIsSerializationOfInput(i) /\ KeyUsedThroughout(i)

\* C30: the cache key of a query call is the caller-supplied key serializer
\* applied to the input when one is given, and otherwise the default
\* serialization of the input; within one call the same key is used for the
\* cache check, for every registration and for the persist; and two calls with
\* equal input use the same key.
C30_KeyOfInput ==
  /\ \A i \in Calls :
       call[i].kind = "query" => KeyIsSerializationOfInput(i) /\ KeyUsedThroughout(i)
  /\ \A i, j \in Calls : EqualInputs(i, j) => call[i].key = call[j].key

\* two calls with equal input use the same key when they write the properties
\* of the input in the same order
C30_SameOrderSameKey ==
  \A i, j \in Calls :
    (EqualInputs(i, j) /\ call[i].input = call[j].input) => call[i].key = call[j].key

\* ---------------------------------------------------------- retention claims
\* the cache.set calls made so far, by any call
SetsMade == UNION {call[i].sets : i \in Calls}

\* C28: every write of a registry record uses infinite retention; the per-query
\* expiration is applied to the write of the query's own entry and to no other
\* write; every snapshot write, of a query or of a mutation, uses the default
\* reference retention.
C28_RetentionPerKeyKind ==
  /\ \A w \in SetsMade :
       /\ w[1] \in AllPointerKeys => w[2] = Infinity
       /\ w[1] \in RefKeys => w[2] = DEFAULT_REFERENCE_SECONDS_UNTIL_EXPIRATION
  /\ \A i \in Calls : \A w \in call[i].sets :
       /\ (call[i].kind = "query" /\ w[1] = call[i].key)
          => w[2] = SecondsUntilExpiration(call[i].fn)
       /\ w[2] \notin {Infinity, NoExpiration, DEFAULT_REFERENCE_SECONDS_UNTIL_EXPIRATION}
          => (call[i].kind = "query" /\ w[1] = call[i].key)
  /\ \A i \in Calls : call[i].writes = {w[1] : w \in call[i].sets}

\* C28 witness: a query with a one-second expiration has registered its pointer,
\* written the snapshot of its output and its own entry, and a mutation has
\* written a snapshot
C28_Witness ==
  \E i, j \in Calls :
    /\ call[i].kind = "query" /\ call[i].pc = "done"
    /\ SecondsUntilExpiration(call[i].fn) = 1
    /\ <<call[i].key, 1>> \in call[i].sets
    /\ \E w \in call[i].sets : w[1] \in AllPointerKeys /\ w[2] = Infinity
    /\ \E w \in call[i].sets : w[1] \in RefKeys
    /\ call[j].kind = "mutation" /\ call[j].pc = "done"
    /\ \E w \in call[j].sets : w[1] \in RefKeys

\* ---------------------------------------------------------- registry claims
RegisterDone(i) == call[i].kind = "register" /\ call[i].pc = "done"
InvalidateDone(i) == call[i].kind = "invalidate" /\ call[i].pc = "done"

\* C4: register calls against one pointer, run concurrently in one process, lose no
\* append: the key of every register call that has completed is in the record.
C4_NoLostAppend ==
  \A i \in Calls :
    RegisterDone(i) =>
      /\ isValidPointerState(store[call[i].pointers[1]])
      /\ Includes(store[call[i].pointers[1]].queries, call[i].key)

\* C4 witness: every call of the run registered a distinct key against the same
\* pointer, all have completed and the record lists them all
C4_Witness ==
  /\ \A i \in Calls : RegisterDone(i) /\ call[i].pointers = call[1].pointers
  /\ \A i, j \in Calls : i # j => call[i].key # call[j].key
  /\ Len(store[call[1].pointers[1]].queries) = MaxCalls

\* C5: registering the same (pointer, queryKey) pair twice leaves exactly one
\* occurrence of queryKey in the record, and the repeat call writes nothing: of the
\* completed register calls of one pair, exactly one has written to the store.
C5_RegisterIdempotent ==
  \A i, j \in Calls :
    (i # j /\ RegisterDone(i) /\ RegisterDone(j)
       /\ call[i].pointers = call[j].pointers /\ call[i].key = call[j].key)
    => /\ Occurrences(store[call[i].pointers[1]].queries, call[i].key) = 1
       /\ Cardinality({x \in Calls : /\ RegisterDone(x)
                                      /\ call[x].pointers = call[i].pointers
                                      /\ call[x].key = call[i].key
                                      /\ call[x].writes # {}}) = 1

\* C5 witness: the same pair was registered twice and the second call wrote nothing
C5_Witness ==
  \E i, j \in Calls :
    /\ i < j /\ RegisterDone(i) /\ RegisterDone(j)
    /\ call[i].pointers = call[j].pointers /\ call[i].key = call[j].key
    /\ call[i].writes = {call[i].pointers[1]} /\ call[j].writes = {}

\* the query keys the record at a pointer lists, none when there is no record
KeysListed(st, pointer) ==
  IF isValidPointerState(st[pointer]) THEN SeqToSet(st[pointer].queries) ELSE {}

\* C35: under any sequence of register and invalidate calls the set of query
\* keys in a pointer's record only grows: no step removes a key from a record
\* or deletes a record, so the key of every completed register call stays listed.
C35_RecordsOnlyGrow ==
  /\ [][\A p \in PointerKeys :
          /\ KeysListed(store, p) \subseteq KeysListed(store', p)
          /\ isValidPointerState(store[p]) => isValidPointerState(store'[p])]_vars
  /\ [](\A i \in Calls :
          RegisterDone(i) => call[i].key \in KeysListed(store, call[i].pointers[1]))

\* C35 witness: two keys were registered against a pointer, an invalidate call
\* of that pointer has cleared both and completed, and the record still lists both
C35_Witness ==
  \E i, j, k \in Calls :
    /\ RegisterDone(i) /\ RegisterDone(j) /\ InvalidateDone(k)
    /\ call[i].key # call[j].key
    /\ call[i].pointers = call[k].pointers /\ call[j].pointers = call[k].pointers
    /\ SeqToSet(call[k].invalidated) = {call[i].key, call[j].key}
    /\ KeysListed(store, call[k].pointers[1]) = {call[i].key, call[j].key}

\* C36: in every reachable state of one process running any interleaving of
\* register calls, no record lists the same query key twice.
C36_NoKeyListedTwice ==
  \A p \in PointerKeys :
    isValidPointerState(store[p])
    => \A q \in SeqToSet(store[p].queries) : Occurrences(store[p].queries, q) = 1

\* C36 witness: three register calls of which two gave the same key have all
\* completed against one pointer, and its record lists two keys, each once
C36_Witness ==
  \E i, j, k \in Calls :
    /\ i # j /\ RegisterDone(i) /\ RegisterDone(j) /\ RegisterDone(k)
    /\ call[i].key = call[j].key /\ call[k].key # call[i].key
    /\ call[i].pointers = call[j].pointers /\ call[k].pointers = call[i].pointers
    /\ Len(store[call[i].pointers[1]].queries) = 2
    /\ Occurrences(store[call[i].pointers[1]].queries, call[i].key) = 1

\* the invalidation t of call t.owner gets the answer of its cache.get in this step
ReadsNow(t) == t \in invQueued /\ t \notin invQueued'

\* C6: invalidating a pointer whose record lists the keys K overwrites exactly each
\* key of K with the absent marker, writes to no other key and returns K: the read
\* starts one clear per key of K and returns K, every change of the store during
\* an invalidation sets a key being cleared to absent, and a completed invalidate
\* call has written exactly the keys it returns.
C6_InvalidatesExactlyListed ==
  /\ [][\A t \in invQueued :
          (ReadsNow(t) /\ call[t.owner].kind = "invalidate"
             /\ isValidPointerState(store[t.pointer]))
          => /\ call'[t.owner].invalidated = store[t.pointer].queries
             /\ {c.queryKey : c \in {x \in clears' : x.owner = t.owner}}
                  = SeqToSet(store[t.pointer].queries)]_vars
  /\ [][\A k \in Keys :
          (clears' # clears /\ store'[k] # store[k])
          => (store'[k] = AbsentValue /\ \E c \in clears \ clears' : c.queryKey = k)]_vars
  /\ [](\A i \in Calls :
          InvalidateDone(i) =>
            /\ call[i].writes = SeqToSet(call[i].invalidated)
            /\ \A k \in call[i].writes : store[k] = AbsentValue)

\* C6 witness: an invalidate call returned two keys and both entries are gone
C6_Witness ==
  \E i \in Calls :
    /\ InvalidateDone(i) /\ Len(call[i].invalidated) = 2
    /\ call[i].invalidated = store[call[i].pointers[1]].queries
    /\ call[i].writes = SeqToSet(call[i].invalidated)
    /\ \A k \in call[i].writes : store[k] = AbsentValue

\* C7: invalidating a pointer that has no record writes nothing and returns an
\* empty list: the call ends at its read, with no clear started and the store as it was.
C7_NoRecordNoWrites ==
  [][\A t \in invQueued :
       (ReadsNow(t) /\ call[t.owner].kind = "invalidate"
          /\ store[t.pointer].kind = "absent")
       => /\ call'[t.owner].pc = "done"
          /\ call'[t.owner].invalidated = <<>>
          /\ call'[t.owner].writes = {}
          /\ clears' = clears
          /\ store' = store]_vars

\* C7 witness: an invalidate call on a pointer without record has returned
C7_Witness ==
  \E i \in Calls :
    /\ InvalidateDone(i) /\ call[i].noDependents = {call[i].pointers[1]}
    /\ call[i].invalidated = <<>> /\ call[i].writes = {}

\* C8: invalidating a pointer leaves the pointer's own record unchanged: no step of
\* an invalidation changes the value at any pointer key.
C8_RecordLeftIntact ==
  [][(invQueued' # invQueued \/ clears' # clears)
       => \A p \in PointerKeys : store'[p] = store[p]]_vars

\* C8 witness: the same pointer was invalidated twice, with the same keys cleared
C8_Witness ==
  \E i, j \in Calls :
    /\ i < j /\ InvalidateDone(i) /\ InvalidateDone(j)
    /\ call[i].pointers = call[j].pointers
    /\ call[i].invalidated # <<>>
    /\ call[i].invalidated = call[j].invalidated
    /\ store[call[i].pointers[1]].queries = call[i].invalidated

====
